---- MODULE Spec2Model ----
(***************************************************************************)
(* Beacon lifecycle coordinator of boomerang.js (src/boomerang.js).         *)
(*                                                                         *)
(* JavaScript is single threaded and runs each task to completion.  The    *)
(* model keeps the call stack of the task that is running (stack), the     *)
(* callbacks handed to BOOMR.setImmediate (immediates) and to setTimeout   *)
(* (timers).  A host call or a scheduled callback starts only when the     *)
(* stack is empty; every function of the coordinator is cut into steps at  *)
(* the points where it calls another function that can run subscriber      *)
(* code, so that re-entrant calls made by subscribers interleave exactly   *)
(* as they do in the browser.                                              *)
(*                                                                         *)
(* Fields of the beacon that are computed from the document and from the   *)
(* browser (u, pgu, r, rt.*, vis.*, ua.*, pid, if) are not modelled.       *)
(***************************************************************************)
EXTENDS Integers, Sequences, FiniteSets, TLC

\* ---------------------------------------------------------------- bounds
MaxBeacons  == 2   \* the host calls sendBeacon only while beaconsSent < MaxBeacons
MaxPageLoads == 1  \* the same, where the host also calls responseEnd
MaxPolls    == 1   \* the same, where timers are fair
MaxCalls    == 2   \* number of BOOMR.responseEnd calls made by the host
MaxReentry  == 1   \* subscriber invocations that still run their script
MaxHandlers == 3   \* the host subscribes to "click" while it has fewer records
MaxSubscribers == 2  \* the same, where the subscribers throw, fire and subscribe
MaxFires    == 2   \* number of fires of "click" by the host, where counted
MaxErrors   == 2   \* the host calls addError while fewer errors wait for a flush

\* ------------------------------------------------------ JavaScript values
Undefined == "undefined"
Null      == "null"
Truthy(x) == x \notin {Undefined, Null, ""}

\* str.indexOf(sub) > -1
Contains(str, sub) ==
    \E i \in 1..(Len(str) - Len(sub) + 1) : SubSeq(str, i, i + Len(sub) - 1) = sub

\* str.match(/^prefix/)
StartsWith(str, prefix) == Len(str) >= Len(prefix) /\ SubSeq(str, 1, Len(prefix)) = prefix

\* A JavaScript object: its own properties in insertion order.
Has(o, k) == \E i \in 1..Len(o) : o[i].k = k
Get(o, k) == IF Has(o, k) THEN o[CHOOSE i \in 1..Len(o) : o[i].k = k].v ELSE Undefined
Put(o, k, x) ==
    IF Has(o, k)
    THEN [i \in 1..Len(o) |-> IF o[i].k = k THEN [k |-> k, v |-> x] ELSE o[i]]
    ELSE Append(o, [k |-> k, v |-> x])
Del(o, k) == SelectSeq(o, LAMBDA p : p.k # k)

\* ------------------------------------------------------------- constants
BEACON_TYPE_SPAS == <<"spa", "spa_hard">>
version == "%boomerang_version%"
GoodUrl == "https://good.example/beacon"
EvilUrl == "https://evil.example/beacon"
GoodPattern == "^https://good\\.example"

inArray(val, ary) ==
    IF val = Undefined \/ Len(ary) = 0 THEN FALSE
    ELSE \E i \in 1..Len(ary) : ary[i] = val

\* The text a pattern without operators other than ^ and \ matches.
RECURSIVE Literal(_)
Literal(pattern) ==
    IF Len(pattern) = 0 THEN ""
    ELSE IF SubSeq(pattern, 1, 1) = "\\"
    THEN SubSeq(pattern, 2, 2) \o Literal(SubSeq(pattern, 3, Len(pattern)))
    ELSE SubSeq(pattern, 1, 1) \o Literal(SubSeq(pattern, 2, Len(pattern)))

\* new RegExp(pattern).exec(url) for such patterns
RegExpExec(pattern, url) ==
    IF StartsWith(pattern, "^")
    THEN StartsWith(url, Literal(SubSeq(pattern, 2, Len(pattern))))
    ELSE Contains(url, Literal(pattern))

EventNames == {"before_beacon", "beacon", "page_load_beacon", "xhr_load", "click",
               "page_unload", "before_unload"}

\* ------------------------------------------------------------------ state
VARIABLES
    beaconQueued,            \* impl.beaconQueued
    beaconsSent,             \* BOOMR.beaconsSent
    hasSentPageLoadBeacon,   \* impl.hasSentPageLoadBeacon
    vars,                    \* impl.vars
    errors,                  \* impl.errors
    events,                  \* impl.events
    singleBeaconVars,        \* impl.singleBeaconVars: the names, in insertion order
    varPriority,             \* impl.varPriority: the names of bucket -1 and of bucket 1
    beacon_url,              \* impl.beacon_url
    beacon_url_override,     \* impl.beacon_url_override
    beacon_urls_allowed,     \* impl.beacon_urls_allowed
    rate_limited,            \* BOOMR.session.rate_limited
    beacon_type,             \* impl.beacon_type
    beacon_auth_token,       \* impl.beacon_auth_token
    beacon_disable_sendbeacon,  \* impl.beacon_disable_sendbeacon
    plugin_complete,         \* what the plugins' is_complete() answers
    plugin_ready,            \* what the plugins' readyToSend() answers
    plugin,                  \* the plugin: typeof its is_complete and readyToSend, and
                             \* whether impl.disabled_plugins names it
    window_ok,               \* window, window.Image, window.navigator, BOOMR.window
    browser,                 \* what navigator.sendBeacon, Image and XMLHttpRequest do
    listeners,               \* the listeners BOOMR.utils.addListener attached to the window
    stack,                   \* call stack of the running task, top last
    immediates,              \* callbacks given to BOOMR.setImmediate, FIFO
    timers,                  \* callbacks given to setTimeout(.., 1000), FIFO
    calls,                   \* arguments of the responseEnd calls made so far
    hfuel,                   \* subscriber invocations that still run their script
    hist                     \* history of the run, read by the properties only

storeVars == <<singleBeaconVars, varPriority>>
implVars == <<beaconQueued, beaconsSent, hasSentPageLoadBeacon, vars, errors,
              events, beacon_url, beacon_url_override, storeVars>>
confVars == <<beacon_urls_allowed, rate_limited, beacon_type, beacon_auth_token,
              beacon_disable_sendbeacon>>
envVars  == <<plugin_complete, plugin_ready, plugin, window_ok, browser, listeners>>
runVars  == <<stack, immediates, timers, calls, hfuel>>
vars_all == <<implVars, confVars, envVars, runVars, hist>>

\* ------------------------------------------------------------ call stack
\* One frame per active call.  fn is the function, pc the step it resumes at;
\* ev, i, len are fireEvent's e_name, i and handlersLen; call is the index in
\* calls of a responseEnd call; data is the object passed or cloned (varsSent);
\* isPageLoad is real_sendBeacon's local; kind names a subscriber's function.
Frame(fn, pc) ==
    [fn |-> fn, pc |-> pc, ev |-> "", i |-> 0, len |-> 0, call |-> 0,
     data |-> <<>>, isPageLoad |-> FALSE, kind |-> ""]

Top == stack[Len(stack)]
Rest == SubSeq(stack, 1, Len(stack) - 1)
Running(fn, pc) == stack # <<>> /\ Top.fn = fn /\ Top.pc = pc
Idle == stack = <<>>

FireFrame(e, data) == [Frame("fireEvent", "start") EXCEPT !.ev = e, !.data = data]
FlushFrame == Frame("real_sendBeacon", "start")
ResponseEndFrame(c) == [Frame("responseEnd", "start") EXCEPT !.call = c]

\* ---------------------------------------------------------------- inputs
\* The first argument of responseEnd: a timer name (a string has no initiator
\* property) or a request object with an initiator and a url.
NameInputs ==
    { [type |-> "string", s |-> "timer", initiator |-> Undefined, url |-> Undefined],
      [type |-> "object", s |-> "", initiator |-> "xhr", url |-> "/api"],
      [type |-> "object", s |-> "", initiator |-> "spa", url |-> "/route"] }

\* Values a producer gives to the http.initiator variable.
InitiatorInputs == {"", "xhr", "spa"}

\* Subscriber functions of the model and the calls each one makes; e is the
\* argument of the call ("" for a call without one).
Script(kind) ==
    CASE kind = "resend"   -> <<[op |-> "sendBeacon", e |-> ""], [op |-> "real_sendBeacon", e |-> ""]>>
      [] kind = "refire"   -> <<[op |-> "sendBeacon", e |-> ""], [op |-> "fireEvent", e |-> "xhr_load"]>>
      [] kind = "sender"   -> <<[op |-> "sendBeacon", e |-> ""]>>
      [] kind = "annotate" -> <<[op |-> "setArg", e |-> "a"], [op |-> "addVar", e |-> "m"]>>
      [] kind = "amend"    -> <<[op |-> "addVarOnce", e |-> "once"], [op |-> "sendBeacon", e |-> ""],
                                [op |-> "real_sendBeacon", e |-> ""]>>
      [] kind = "tamper"   -> <<[op |-> "addVar", e |-> "m"], [op |-> "removeVar", e |-> "z"],
                                [op |-> "setArg", e |-> "a"]>>
      [] kind = "redirect" -> <<[op |-> "sendBeacon", e |-> EvilUrl], [op |-> "fireEvent", e |-> "xhr_load"]>>
      [] kind = "deferred" -> <<[op |-> "responseEnd", e |-> ""]>>
      [] kind = "clear"    -> <<[op |-> "clearArg", e |-> ""]>>
      [] kind = "thrower"  -> <<[op |-> "throw", e |-> "Error: boom"]>>
      [] kind = "breaker"  -> <<[op |-> "throw", e |-> "[object Object]"]>>
      [] kind = "refirer"  -> <<[op |-> "fireEvent", e |-> "click"]>>
      [] kind = "joiner"   -> <<[op |-> "subscribe", e |-> "click"]>>
      [] OTHER             -> <<>>

\* The subscriber functions that run their calls at every invocation; the
\* others, which call back into the coordinator or the bus, do so hfuel times.
Unfueled == {"deferred", "thrower", "breaker", "joiner"}

\* The subscriptions the host makes: event and subscriber function.
SubscribeInputs ==
    { <<"before_beacon", "resend">>, <<"beacon", "refire">>, <<"xhr_load", "sender">> }

UserFn(kind) == [k |-> kind, c |-> 0]

\* Arguments of the subscribe calls for "click": two callbacks, and cb_data and
\* cb_scope omitted (undefined), null or given.
ClickFns == {UserFn("onclick"), UserFn("track")}
CbDataInputs == {Undefined, Null, "cb_data"}
ScopeInputs == {Undefined, Null, "BOOMR"}
\* Subscribers of "click": one that returns, one that throws an Error, one that
\* throws an object literal, one that fires "click" itself, and one that
\* subscribes the function late to "click".
BusKinds == {"onclick", "thrower", "breaker", "refirer", "joiner"}
\* The events with native teardown listeners, the subscribers given to them (one
\* that returns and one that asks for a beacon), and the native events.
UnloadEvents == {"page_unload", "before_unload"}
UnloadKinds == {"onunload", "sender"}
NativeInputs == {"beforeunload", "pagehide"}
\* The function object created by one evaluation of the closure in responseEnd.
DeferredFn(c) == [k |-> "deferred", c |-> c]

\* An enabled plugin with both methods.
Plugin == [is_complete |-> "function", readyToSend |-> "function", disabled |-> FALSE]

\* The plugins: with or without is_complete and readyToSend, enabled or disabled.
PluginInputs ==
    [is_complete : {"function", "undefined"}, readyToSend : {"function", "undefined"},
     disabled : BOOLEAN]

\* A browser in which every transport mechanism is present and works.
Browser == [sendBeacon |-> "accepts", Image |-> "ok", XMLHttpRequest |-> "ok",
            frame |-> "ok"]

\* Configurations of beacon_url, beacon_urls_allowed and session.rate_limited.
ConfigInputs ==
    { [url |-> GoodUrl, allowed |-> <<>>, limited |-> FALSE],
      [url |-> GoodUrl, allowed |-> <<>>, limited |-> TRUE],
      [url |-> "",      allowed |-> <<>>, limited |-> FALSE],
      [url |-> EvilUrl, allowed |-> <<GoodPattern>>, limited |-> FALSE] }

\* The browsers: navigator.sendBeacon missing, accepting or refusing the data;
\* Image constructible or not; the window's XMLHttpRequest working, throwing
\* from the constructor, throwing from open or send, or missing; the same for
\* the XMLHttpRequest of the boomerang frame, which differs only where the
\* window's one throws from open or send.
BrowserInputs ==
    { b \in [sendBeacon : {"absent", "accepts", "refuses"},
             Image : {"ok", "throws"},
             XMLHttpRequest : {"ok", "new throws", "throws", "absent"},
             frame : {"ok", "new throws", "throws"}] :
        b.XMLHttpRequest # "throws" => b.frame = "ok" }

\* Configurations of beacon_type, beacon_auth_token and beacon_disable_sendbeacon.
TransportInputs ==
    { [type |-> "AUTO", token |-> Undefined, disable |-> FALSE],
      [type |-> "GET",  token |-> Undefined, disable |-> FALSE],
      [type |-> "POST", token |-> Undefined, disable |-> FALSE],
      [type |-> "POST", token |-> "token",   disable |-> FALSE],
      [type |-> "POST", token |-> Undefined, disable |-> TRUE] }

\* Configurations of beacon_url and beacon_urls_allowed for the transport.
UrlInputs ==
    { [url |-> GoodUrl, allowed |-> <<>>],
      [url |-> GoodUrl, allowed |-> <<GoodPattern>>],
      [url |-> EvilUrl, allowed |-> <<GoodPattern>>] }

\* A protocol-relative beacon_url, and allow-lists that match it: by its
\* beginning, and by its host anywhere.
RelativeUrl == "//good.example/beacon"
RelativeInputs == { <<"^//good\\.example">>, <<"good\\.example">> }

\* The argument of sendBeacon: no override, or a URL.
OverrideInputs == {Undefined, GoodUrl, EvilUrl}

\* Lengths of the value of the variable "pad" with which the URL of a beacon
\* of v, n and pad to GoodUrl has MAX_GET_LENGTH characters, and one more.
PadInputs == {1938, 1939}

\* a string of n characters
RECURSIVE Pad(_)
Pad(n) == IF n = 0 THEN "" ELSE IF n = 1 THEN "x" ELSE Pad(n \div 2) \o Pad(n - n \div 2)

\* The errors the host reports with BOOMR.addError(err, src).
ErrorInputs == {"Error: boom", "late"}

\* Beacon variables the host adds: name and value.
ParamInputs == { <<"a", "1">>, <<"m", "2 3">>, <<"z", "4">> }
ParamNames == { in[1] : in \in ParamInputs }

\* The value a subscriber gives to the variables it writes.
Changed == "9"

\* The subscribers of the store: two of before_beacon and one of beacon.
StoreSubscribeInputs ==
    { <<"before_beacon", "annotate">>, <<"before_beacon", "amend">>, <<"beacon", "tamper">> }

\* The pri argument of setVarPriority: first, last, and two that it ignores.
PriorityInputs == {-1, 1, 0, 2}

\* The name argument of setVarPriority.
PriorityNames == {"http.initiator", "n"}

\* The sequences without repetition of elements of S: the orders in which
\* calls can have added properties to an object.
Orders(S) ==
    { q \in UNION { [1..n -> S] : n \in 0..Cardinality(S) } :
        \A i, j \in 1..Len(q) : i # j => q[i] # q[j] }

\* The stores addVar and removeVar calls with ParamInputs lead to.
StoreInputs ==
    { [i \in 1..Len(q) |-> [k |-> q[i][1], v |-> q[i][2]]] : q \in Orders(ParamInputs) }

\* ---------------------------------------------------------------- history
HistInit ==
    [requests |-> 0,      \* sendBeacon calls since the last flush passed its guard: 0, 1, several
     scheduled |-> 0,     \* real_sendBeacon callbacks scheduled since then
     passes |-> 0,        \* flushes that passed the guard since the flag was last set
     lastWindow |-> 0,    \* requests coalesced into the last flush that passed the guard
     handoffs |-> 0,      \* calls of sendBeaconData
     fullPageFlush |-> FALSE,  \* a flush with http.initiator absent or empty passed the checks
     pageLoads |-> 0,     \* flushes classified isPageLoad that reached the latch
     latchedBy |-> "none", \* http.initiator of the flush that set the latch
     wirePageLoad |-> FALSE,   \* a page-load snapshot reached a transport mechanism
     early |-> FALSE,     \* xhr_load fired for a non-SPA call before that
     plbFires |-> 0,      \* fireEvent("page_load_beacon") executions
     deferred |-> <<>>,   \* responseEnd calls deferred on page_load_beacon, in order
     xhrLoads |-> <<>>,   \* calls whose xhr_load event was fired, in order
     subscribed |-> {},   \* argument lists of the subscribe calls made for "click"
     invoked |-> 0,       \* subscribers invoked by the last fire of "click"
     params |-> <<>>,     \* the parameter list of the last sendBeaconData that built one
     wire |-> <<>>,       \* the requests it made to transport mechanisms, in order
     waiting |-> {},      \* calls whose last readiness check in responseEnd failed
     snapshot |-> <<>>,   \* varsSent as the last flush cloned it
     changed |-> {},      \* writes of before_beacon subscribers: frame of the flush, name, value
     spent |-> FALSE,     \* a snapshot held a single-use variable
     configured |-> "",   \* the beacon_url of the configuration
     override |-> Undefined,      \* the last override given to sendBeacon since a flush passed the guard
     flushOverride |-> Undefined, \* the same for the last flush that passed the guard
     propagated |-> FALSE, \* an exception left sendBeaconData
     uncaught |-> FALSE,  \* an exception left the running task
     owed |-> {},         \* stack indexes of the fireEvent calls made while a beacon was queued
                          \* whose real_sendBeacon call has not passed the guard yet
     forced |-> {},       \* stack indexes of the running fireEvent calls whose call did
     fires |-> <<>>,      \* the running fires of "click", outermost first: stack index,
                          \* subscribers when the loop began, subscribers invoked, throws
     shots |-> <<>>,      \* invocations of the 'once' subscribers of "click" since they subscribed
     clicks |-> 0,        \* fires of "click" by the host
     natives |-> <<>>,    \* the native teardown events the window has dispatched, in order
     unloads |-> <<>>,    \* the subscriptions whose callback an unload_handler invoked:
                          \* event and function, in order
     finals |-> <<>>]     \* the real_sendBeacon calls of unload handlers: the native event,
                          \* the callback that had just run, and whether a beacon was queued

\* hist after the frames above the stack s have returned or been left by an
\* exception
Popped(h, s) ==
    [h EXCEPT !.forced = { d \in @ : d <= Len(s) },
              !.fires = SelectSeq(@, LAMBDA r : r.depth <= Len(s))]

Task(t, data, c) == [t |-> t, data |-> data, call |-> c]
Min(a, b) == IF a < b THEN a ELSE b

\* ------------------------------------------------------------- Event Bus
\* cb_data || {} : the object literal is a new object, identical to no argument
OrEmptyObject(cb_data) == IF Truthy(cb_data) THEN cb_data ELSE "{}"
OrNull(cb_scope) == IF Truthy(cb_scope) THEN cb_scope ELSE Null

\* subscribe that drops its 'once' argument
subscribeForever(evs, e_name, fn, cb_data, cb_scope, once) ==
    LET ev == evs[e_name]
        attached == \E i \in 1..Len(ev) :
                        /\ ev[i].fn = fn
                        /\ ev[i].cb_data = cb_data
                        /\ ev[i].scope = cb_scope
    IN  IF attached THEN evs
        ELSE [evs EXCEPT ![e_name] =
                 Append(ev, [fn |-> fn, cb_data |-> OrEmptyObject(cb_data),
                             scope |-> OrNull(cb_scope), once |-> FALSE])]

subscribe(evs, e_name, fn, cb_data, cb_scope, once) ==
    LET ev == evs[e_name]
        attached == \E i \in 1..Len(ev) :
                        /\ ev[i].fn = fn
                        /\ ev[i].cb_data = cb_data
                        /\ ev[i].scope = cb_scope
    IN  IF attached THEN evs
        ELSE [evs EXCEPT ![e_name] =
                 Append(ev, [fn |-> fn, cb_data |-> OrEmptyObject(cb_data),
                             scope |-> OrNull(cb_scope), once |-> once])]

\* String(err) of a thrown object matches /^\[object/ and the object has neither
\* description nor message: (err.description || err.message).replace throws
addErrorThrows(err) == StartsWith(err, "[object")

\* impl.errors[err]++, or impl.errors[err] = 1
addError(errs, err, src) ==
    LET key == <<src, err>>
    IN  IF Has(errs, key) THEN Put(errs, key, Get(errs, key) + 1) ELSE Put(errs, key, 1)

\* errors.join("\n") of k + (impl.errors[k] > 1 ? " (*" + impl.errors[k] + ")" : "");
\* k is "[" + src + ":" + BOOMR.now() + "] " + err, the time left out
RECURSIVE errorsJoin(_)
errorsJoin(errs) ==
    IF errs = <<>> THEN ""
    ELSE LET e == Head(errs)
             k == "[" \o e.k[1] \o "] " \o e.k[2]
             one == IF e.v > 1 THEN k \o " (*" \o ToString(e.v) \o ")" ELSE k
         IN  IF Tail(errs) = <<>> THEN one ELSE one \o "\n" \o errorsJoin(Tail(errs))

\* The loop that removes the 'once' handlers: i and handlersLen run over the
\* live array; reading .once of a missing element throws a TypeError.
RECURSIVE RemoveOnce(_, _, _)
RemoveOnce(handlers, i, handlersLen) ==
    IF i >= handlersLen THEN [ok |-> TRUE, handlers |-> handlers]
    ELSE IF i + 1 > Len(handlers) THEN [ok |-> FALSE, handlers |-> handlers]
    ELSE IF handlers[i + 1].once
         THEN RemoveOnce(SubSeq(handlers, 1, i) \o SubSeq(handlers, i + 2, Len(handlers)),
                         i, handlersLen - 1)
         ELSE RemoveOnce(handlers, i + 1, handlersLen)

\* An exception leaves every frame up to the try block around handler.fn.call
\* in fireEvent, that is the frame below the innermost subscriber frame.
RECURSIVE Unwind(_)
Unwind(s) ==
    IF s = <<>> THEN <<>>
    ELSE IF s[Len(s)].fn = "handler" THEN SubSeq(s, 1, Len(s) - 1)
    ELSE Unwind(SubSeq(s, 1, Len(s) - 1))
Caught(s) == \E j \in 1..Len(s) : s[j].fn = "handler"

\* e_name of the fireEvent call whose try block catches an exception thrown in s
CatcherEv(s) ==
    LET j == CHOOSE j \in 1..Len(s) :
                 s[j].fn = "handler" /\ \A l \in (j + 1)..Len(s) : s[l].fn # "handler"
    IN  s[j - 1].ev

\* ------------------------------------------------------- Variable Store
addVar(vs, name, value) == Put(vs, name, value)

\* impl.singleBeaconVars[name] = 1 and impl.varPriority[pri][name] = 1: a new
\* property goes to the end, an existing one keeps its place
Mark(names, name) ==
    IF \E i \in 1..Len(names) : names[i] = name THEN names ELSE Append(names, name)

setVarPriority(vp, name, pri) ==
    IF pri \notin {-1, 1} THEN vp ELSE [vp EXCEPT ![pri] = Mark(@, name)]

RECURSIVE removeVar(_, _)
removeVar(vs, params) ==
    IF params = <<>> THEN vs
    ELSE removeVar(IF Has(vs, Head(params)) THEN Del(vs, Head(params)) ELSE vs, Tail(params))

\* the loop over impl.singleBeaconVars left out
keepSingleBeaconVars(vs, markers) == vs

\* for (var singleVarName in impl.singleBeaconVars) BOOMR.removeVar(singleVarName)
removeSingleBeaconVars(vs, markers) == removeVar(vs, markers)

\* ------------------------------------------------------- Readiness Gate
\* plugins that are always ready to send
readyToSendAlways == TRUE

\* BOOMR.readyToSend()
readyToSend == plugin.disabled \/ plugin.readyToSend # "function" \/ plugin_ready

\* a plugin that always reports complete
is_completeAlways == TRUE

\* the loop over this.plugins in real_sendBeacon finds every plugin complete;
\* read where the loop does not throw
is_complete == plugin.disabled \/ plugin_complete

\* this.plugins[k].is_complete is not a function: the call throws a TypeError
is_completeThrows == ~plugin.disabled /\ plugin.is_complete # "function"

beaconUrlAllowed(url) ==
    IF Len(beacon_urls_allowed) = 0 THEN TRUE
    ELSE \E i \in 1..Len(beacon_urls_allowed) : RegExpExec(beacon_urls_allowed[i], url)

\* ---------------------------------------------------- Beacon Coordinator
isSPA(vs) == inArray(Get(vs, "http.initiator"), BEACON_TYPE_SPAS)
isPageLoad(vs) == Get(vs, "http.initiator") = Undefined \/ isSPA(vs)

\* sendBeacon without the test of impl.beaconQueued
sendBeaconUnguarded(url_override) ==
    /\ beacon_url_override' = IF Truthy(url_override) THEN url_override ELSE beacon_url_override
    /\ beaconQueued' = TRUE
    /\ immediates' = Append(immediates, Task("real_sendBeacon", <<>>, 0))
    /\ hist' = [hist EXCEPT !.requests = Min(@ + 1, 2),
                            !.override = IF Truthy(url_override) THEN url_override ELSE @,
                            !.scheduled = @ + 1,
                            !.passes = IF beaconQueued THEN @ ELSE 0]

\* sendBeacon without the call of BOOMR.setImmediate
sendBeaconUnscheduled(url_override) ==
    /\ beacon_url_override' = IF Truthy(url_override) THEN url_override ELSE beacon_url_override
    /\ beaconQueued' = TRUE
    /\ immediates' = immediates
    /\ hist' = [hist EXCEPT !.requests = Min(@ + 1, 2),
                            !.override = IF Truthy(url_override) THEN url_override ELSE @,
                            !.passes = IF beaconQueued THEN @ ELSE 0]

\* sendBeacon(beacon_url_override): the part shared by every caller
sendBeacon(url_override) ==
    /\ beacon_url_override' = IF Truthy(url_override) THEN url_override ELSE beacon_url_override
    /\ beaconQueued' = TRUE
    /\ immediates' = IF beaconQueued THEN immediates
                     ELSE Append(immediates, Task("real_sendBeacon", <<>>, 0))
    /\ hist' = [hist EXCEPT !.requests = Min(@ + 1, 2),
                            !.override = IF Truthy(url_override) THEN url_override ELSE @,
                            !.scheduled = IF beaconQueued THEN @ ELSE @ + 1,
                            !.passes = IF beaconQueued THEN @ ELSE 0]

\* the test without !impl.hasSentPageLoadBeacon
KeepTrackEvery(sent, pageLoad) == pageLoad

\* if (!impl.hasSentPageLoadBeacon && isPageLoad)
KeepTrack(sent, pageLoad) == ~sent /\ pageLoad

\* a session that is never rate limited
ThrottledNever == FALSE

\* if (BOOMR.session.rate_limited)
Throttled == rate_limited


\* ------------------------------------------------------------------ Init
Init ==
    /\ beaconQueued = FALSE
    /\ beaconsSent = 0
    /\ hasSentPageLoadBeacon = FALSE
    /\ vars = <<>>
    /\ errors = <<>>
    /\ events = [e \in EventNames |-> <<>>]
    /\ singleBeaconVars = <<>>
    /\ varPriority = [pri \in {-1, 1} |-> <<>>]
    /\ beacon_url_override = Undefined
    /\ \E cfg \in ConfigInputs :
          /\ beacon_url = cfg.url
          /\ beacon_urls_allowed = cfg.allowed
          /\ rate_limited = cfg.limited
    /\ beacon_type = "AUTO"
    /\ beacon_auth_token = Undefined
    /\ beacon_disable_sendbeacon = FALSE
    /\ browser = Browser
    /\ plugin_complete = TRUE
    /\ plugin_ready = TRUE
    /\ plugin = Plugin
    /\ window_ok = TRUE
    /\ listeners = <<>>
    /\ stack = <<>>
    /\ immediates = <<>>
    /\ timers = <<>>
    /\ calls = <<>>
    /\ hfuel = MaxReentry
    /\ hist = [HistInit EXCEPT !.configured = beacon_url]

\* A configured transport in some browser.
InitTransport ==
    /\ beaconQueued = FALSE
    /\ beaconsSent = 0
    /\ hasSentPageLoadBeacon = FALSE
    /\ vars = <<>>
    /\ errors = <<>>
    /\ events = [e \in EventNames |-> <<>>]
    /\ singleBeaconVars = <<>>
    /\ varPriority = [pri \in {-1, 1} |-> <<>>]
    /\ beacon_url_override = Undefined
    /\ \E cfg \in UrlInputs :
          /\ beacon_url = cfg.url
          /\ beacon_urls_allowed = cfg.allowed
    /\ rate_limited = FALSE
    /\ \E cfg \in TransportInputs :
          /\ beacon_type = cfg.type
          /\ beacon_auth_token = cfg.token
          /\ beacon_disable_sendbeacon = cfg.disable
    /\ browser \in BrowserInputs
    /\ plugin_complete = TRUE
    /\ plugin_ready = TRUE
    /\ plugin = Plugin
    /\ window_ok = TRUE
    /\ listeners = <<>>
    /\ stack = <<>>
    /\ immediates = <<>>
    /\ timers = <<>>
    /\ calls = <<>>
    /\ hfuel = MaxReentry
    /\ hist = [HistInit EXCEPT !.configured = beacon_url]

\* A store and priority buckets filled by addVar and setVarPriority calls.
InitParams ==
    /\ beaconQueued = FALSE
    /\ beaconsSent = 0
    /\ hasSentPageLoadBeacon = FALSE
    /\ vars \in StoreInputs
    /\ errors = <<>>
    /\ events = [e \in EventNames |-> <<>>]
    /\ singleBeaconVars = <<>>
    /\ varPriority \in [{-1, 1} -> Orders(ParamNames)]
    /\ beacon_url_override = Undefined
    /\ beacon_url = GoodUrl
    /\ beacon_urls_allowed = <<>>
    /\ rate_limited = FALSE
    /\ beacon_type = "AUTO"
    /\ beacon_auth_token = Undefined
    /\ beacon_disable_sendbeacon = FALSE
    /\ browser = Browser
    /\ plugin_complete = TRUE
    /\ plugin_ready = TRUE
    /\ plugin = Plugin
    /\ window_ok = TRUE
    /\ listeners = <<>>
    /\ stack = <<>>
    /\ immediates = <<>>
    /\ timers = <<>>
    /\ calls = <<>>
    /\ hfuel = MaxReentry
    /\ hist = [HistInit EXCEPT !.configured = beacon_url]

\* A store filled by addVar calls.
InitStore ==
    /\ beaconQueued = FALSE
    /\ beaconsSent = 0
    /\ hasSentPageLoadBeacon = FALSE
    /\ vars \in StoreInputs
    /\ errors = <<>>
    /\ events = [e \in EventNames |-> <<>>]
    /\ singleBeaconVars = <<>>
    /\ varPriority = [pri \in {-1, 1} |-> <<>>]
    /\ beacon_url_override = Undefined
    /\ beacon_url = GoodUrl
    /\ beacon_urls_allowed = <<>>
    /\ rate_limited = FALSE
    /\ beacon_type = "AUTO"
    /\ beacon_auth_token = Undefined
    /\ beacon_disable_sendbeacon = FALSE
    /\ browser = Browser
    /\ plugin_complete = TRUE
    /\ plugin_ready = TRUE
    /\ plugin = Plugin
    /\ window_ok = TRUE
    /\ listeners = <<>>
    /\ stack = <<>>
    /\ immediates = <<>>
    /\ timers = <<>>
    /\ calls = <<>>
    /\ hfuel = MaxReentry
    /\ hist = [HistInit EXCEPT !.configured = beacon_url]

\* ------------------------------------------------- calls made by the host
HostSendBeaconWhile(more) ==
    /\ Idle
    /\ more
    /\ sendBeacon(Undefined)
    /\ UNCHANGED <<beaconsSent, hasSentPageLoadBeacon, vars, errors, events, beacon_url,
                   storeVars, confVars, envVars, stack, timers, calls, hfuel>>

HostSendBeacon == HostSendBeaconWhile(beaconsSent < MaxBeacons)
\* the page-load plugin asks for its beacon
HostPageLoad == HostSendBeaconWhile(beaconsSent < MaxPageLoads)
\* the same, until the page-load beacon has been sent
HostPageLoadFirst == HostSendBeaconWhile(~hasSentPageLoadBeacon)

\* BOOMR.sendBeacon(beacon_url_override)
HostSendBeaconTo ==
    /\ Idle
    /\ beaconsSent < MaxBeacons
    /\ \E url_override \in OverrideInputs : sendBeacon(url_override)
    /\ UNCHANGED <<beaconsSent, hasSentPageLoadBeacon, vars, errors, events, beacon_url,
                   storeVars, confVars, envVars, stack, timers, calls, hfuel>>

\* BOOMR.responseEnd(name)
HostResponseEndWhile(more) ==
    /\ Idle
    /\ more
    /\ \E name \in NameInputs :
          /\ calls' = Append(calls, name)
          /\ stack' = <<ResponseEndFrame(Len(calls) + 1)>>
    /\ UNCHANGED <<implVars, confVars, envVars, immediates, timers, hfuel, hist>>

HostResponseEnd == HostResponseEndWhile(Len(calls) < MaxCalls)
HostPoll == HostResponseEndWhile(Len(calls) < MaxPolls)

HostSubscribeTo(inputs) ==
    /\ Idle
    /\ \E in \in inputs :
          events' = subscribe(events, in[1], UserFn(in[2]), "cb_data", "BOOMR", FALSE)
    /\ UNCHANGED <<beaconQueued, beaconsSent, hasSentPageLoadBeacon, vars, errors,
                   beacon_url, beacon_url_override, storeVars, confVars, envVars, runVars, hist>>

HostSubscribe == HostSubscribeTo(SubscribeInputs)
HostSubscribeStore == HostSubscribeTo(StoreSubscribeInputs)
\* a 'beacon' subscriber that asks for a beacon to another URL and fires an event
HostSubscribeRedirect == HostSubscribeTo({<<"beacon", "redirect">>})

\* a before_beacon subscriber that throws an Error
HostSubscribeThrower == HostSubscribeTo({<<"before_beacon", "thrower">>})

\* a before_beacon subscriber that deletes every property of its argument
HostSubscribeClear == HostSubscribeTo({<<"before_beacon", "clear">>})

\* BOOMR.subscribe("click", fn, cb_data, cb_scope)
HostSubscribeClick ==
    /\ Idle
    /\ Len(events["click"]) < MaxHandlers
    /\ \E fn \in ClickFns, cb_data \in CbDataInputs, cb_scope \in ScopeInputs :
          /\ events' = subscribe(events, "click", fn, cb_data, cb_scope, FALSE)
          /\ hist' = [hist EXCEPT !.subscribed = @ \cup {<<fn, cb_data, cb_scope>>}]
    /\ UNCHANGED <<beaconQueued, beaconsSent, hasSentPageLoadBeacon, vars, errors,
                   beacon_url, beacon_url_override, storeVars, confVars, envVars, runVars>>

\* BOOMR.subscribe(e_name, fn, cb_data, cb_scope) for page_unload and
\* before_unload: a new subscription also attaches unload_handler, a closure
\* over e_name, fn and evt_idx, to pagehide (or unload) and to beforeunload.
HostSubscribeUnload ==
    /\ Idle
    /\ \E e_name \in UnloadEvents, kind \in UnloadKinds :
          /\ Len(events[e_name]) < MaxSubscribers
          /\ events' = subscribe(events, e_name, UserFn(kind), "cb_data", "BOOMR", FALSE)
          /\ listeners' =
                IF events' = events THEN listeners
                ELSE LET unload_handler(type) ==
                             [type |-> type, e_name |-> e_name, fn |-> UserFn(kind),
                              evt_idx |-> Len(events'[e_name])]
                     IN  listeners \o
                         (IF e_name = "page_unload" THEN <<unload_handler("pagehide")>> ELSE <<>>) \o
                         <<unload_handler("beforeunload")>>
    /\ UNCHANGED <<beaconQueued, beaconsSent, hasSentPageLoadBeacon, vars, errors,
                   beacon_url, beacon_url_override, storeVars, confVars, plugin_complete,
                   plugin_ready, plugin, window_ok, browser, runVars, hist>>

\* The window dispatches beforeunload, or pagehide (unload where pagehide is
\* not supported): beforeunload comes first if it comes, and each comes once.
HostTeardown ==
    /\ Idle
    /\ \E type \in NativeInputs :
          /\ \A k \in 1..Len(hist.natives) : hist.natives[k] # type
          /\ type = "beforeunload" => hist.natives = <<>>
          /\ stack' = <<[Frame("dispatchEvent", "loop") EXCEPT !.ev = type,
                                                               !.len = Len(listeners)]>>
          /\ hist' = [hist EXCEPT !.natives = Append(@, type)]
    /\ UNCHANGED <<implVars, confVars, envVars, immediates, timers, calls, hfuel>>

\* the window calls its next listener of the event
DispatchNext ==
    /\ Running("dispatchEvent", "loop")
    /\ Top.i < Top.len
    /\ stack' = Rest \o <<[Top EXCEPT !.i = @ + 1]>> \o
                (IF listeners[Top.i + 1].type = Top.ev
                 THEN <<[Frame("unload_handler", "start") EXCEPT !.call = Top.i + 1]>>
                 ELSE <<>>)
    /\ UNCHANGED <<implVars, confVars, envVars, immediates, timers, calls, hfuel, hist>>

DispatchReturn ==
    /\ Running("dispatchEvent", "loop")
    /\ Top.i >= Top.len
    /\ stack' = Rest
    /\ UNCHANGED <<implVars, confVars, envVars, immediates, timers, calls, hfuel, hist>>

\* unload_handler: if (fn) { fn.call(cb_scope, evt || w.event, cb_data); }
UnloadHandlerStart ==
    /\ Running("unload_handler", "start")
    /\ LET listener == listeners[Top.call]
       IN  /\ stack' = Rest \o <<[Top EXCEPT !.pc = "called"],
                                  [Frame("handler", "run") EXCEPT !.kind = listener.fn.k]>>
           /\ hist' = [hist EXCEPT !.unloads = Append(@, <<listener.e_name, listener.fn>>)]
    /\ UNCHANGED <<implVars, confVars, envVars, immediates, timers, calls, hfuel>>

\* unload_handler without the call of BOOMR.real_sendBeacon()
UnloadHandlerCalledOnly ==
    /\ Running("unload_handler", "called")
    /\ stack' = Rest
    /\ UNCHANGED <<implVars, confVars, envVars, immediates, timers, calls, hfuel, hist>>

\* unload_handler: the last subscriber of page_unload calls BOOMR.real_sendBeacon()
UnloadHandlerCalled ==
    /\ Running("unload_handler", "called")
    /\ LET listener == listeners[Top.call]
           last == /\ listener.e_name = "page_unload"
                   /\ listener.evt_idx = Len(events[listener.e_name])
       IN  /\ stack' = IF last THEN Rest \o <<[Top EXCEPT !.pc = "flushed"], FlushFrame>>
                       ELSE Rest
           /\ hist' = IF last
                      THEN [hist EXCEPT !.finals = Append(@, [type |-> listener.type,
                                                              after |-> listener.fn,
                                                              queued |-> beaconQueued])]
                      ELSE hist
    /\ UNCHANGED <<implVars, confVars, envVars, immediates, timers, calls, hfuel>>

UnloadHandlerReturn ==
    /\ Running("unload_handler", "flushed")
    /\ stack' = Rest
    /\ UNCHANGED <<implVars, confVars, envVars, immediates, timers, calls, hfuel, hist>>

\* BOOMR.subscribe("click", fn, cb_data, cb_scope, once)
HostSubscribeBus ==
    /\ Idle
    /\ Len(events["click"]) < MaxSubscribers
    /\ \E kind \in BusKinds, once \in BOOLEAN :
          /\ events' = subscribe(events, "click", UserFn(kind), "cb_data", "BOOMR", once)
          /\ hist' = IF events' = events THEN hist
                     ELSE [hist EXCEPT !.shots = SelectSeq(@, LAMBDA fn : fn # UserFn(kind))]
    /\ UNCHANGED <<beaconQueued, beaconsSent, hasSentPageLoadBeacon, vars, errors,
                   beacon_url, beacon_url_override, storeVars, confVars, envVars, runVars>>

\* BOOMR.fireEvent("click"), MaxFires times
HostFire ==
    /\ Idle
    /\ hist.clicks < MaxFires
    /\ stack' = <<FireFrame("click", <<>>)>>
    /\ hist' = [hist EXCEPT !.invoked = 0, !.clicks = @ + 1]
    /\ UNCHANGED <<implVars, confVars, envVars, immediates, timers, calls, hfuel>>

\* BOOMR.fireEvent("click")
HostFireClick ==
    /\ Idle
    /\ stack' = <<FireFrame("click", <<>>)>>
    /\ hist' = [hist EXCEPT !.invoked = 0]
    /\ UNCHANGED <<implVars, confVars, envVars, immediates, timers, calls, hfuel>>

HostAddVar ==
    /\ Idle
    /\ \E value \in InitiatorInputs : vars' = addVar(vars, "http.initiator", value)
    /\ UNCHANGED <<beaconQueued, beaconsSent, hasSentPageLoadBeacon, errors, events,
                   beacon_url, beacon_url_override, storeVars, confVars, envVars, runVars, hist>>

HostRemoveVar ==
    /\ Idle
    /\ vars' = removeVar(vars, <<"http.initiator">>)
    /\ UNCHANGED <<beaconQueued, beaconsSent, hasSentPageLoadBeacon, errors, events,
                   beacon_url, beacon_url_override, storeVars, confVars, envVars, runVars, hist>>

\* BOOMR.setVarPriority(name, pri)
HostSetVarPriority ==
    /\ Idle
    /\ \E name \in PriorityNames, pri \in PriorityInputs :
          varPriority' = setVarPriority(varPriority, name, pri)
    /\ UNCHANGED <<beaconQueued, beaconsSent, hasSentPageLoadBeacon, vars, errors, events,
                   beacon_url, beacon_url_override, singleBeaconVars, confVars, envVars,
                   runVars, hist>>

\* the number of errors impl.errors holds, repetitions included
RECURSIVE Tally(_)
Tally(errs) == IF errs = <<>> THEN 0 ELSE Head(errs).v + Tally(Tail(errs))

\* BOOMR.addError(err, "host")
HostAddError ==
    /\ Idle
    /\ beaconsSent < MaxBeacons
    /\ Tally(errors) < MaxErrors
    /\ \E err \in ErrorInputs : errors' = addError(errors, err, "host")
    /\ UNCHANGED <<beaconQueued, beaconsSent, hasSentPageLoadBeacon, vars, events, beacon_url,
                   beacon_url_override, storeVars, confVars, envVars, runVars, hist>>

\* BOOMR.addVar("pad", value) with a long value
HostAddPad ==
    /\ Idle
    /\ ~Has(vars, "pad")
    /\ \E n \in PadInputs : vars' = addVar(vars, "pad", Pad(n))
    /\ UNCHANGED <<beaconQueued, beaconsSent, hasSentPageLoadBeacon, errors, events,
                   beacon_url, beacon_url_override, storeVars, confVars, envVars, runVars, hist>>

\* BOOMR.addVar("once", "1", true)
HostAddOnce ==
    /\ Idle
    /\ beaconsSent < MaxBeacons
    /\ vars' = addVar(vars, "once", "1")
    /\ singleBeaconVars' = Mark(singleBeaconVars, "once")
    /\ UNCHANGED <<beaconQueued, beaconsSent, hasSentPageLoadBeacon, errors, events,
                   beacon_url, beacon_url_override, varPriority, confVars, envVars, runVars,
                   hist>>

\* ------------------------------------------------------- the environment
\* a plugin's is_complete() starts to answer differently
CompleteChange ==
    /\ Idle
    /\ plugin_complete' = ~plugin_complete
    /\ UNCHANGED <<implVars, confVars, plugin_ready, plugin, window_ok, browser, listeners, runVars,
                   hist>>

\* a plugin's readyToSend() starts to answer differently
ReadyChange ==
    /\ Idle
    /\ plugin_ready' = ~plugin_ready
    /\ UNCHANGED <<implVars, confVars, plugin_complete, plugin, window_ok, browser, listeners, runVars,
                   hist>>

\* a producer sets or clears BOOMR.session.rate_limited
RateLimitChange ==
    /\ Idle
    /\ rate_limited' = ~rate_limited
    /\ UNCHANGED <<implVars, beacon_urls_allowed, beacon_type, beacon_auth_token,
                   beacon_disable_sendbeacon, envVars, runVars, hist>>

WindowGone ==
    /\ Idle
    /\ window_ok
    /\ window_ok' = FALSE
    /\ UNCHANGED <<implVars, confVars, plugin_complete, plugin_ready, plugin, browser, listeners,
                   runVars, hist>>

\* cb of BOOMR.setImmediate runs
RunImmediate ==
    /\ Idle
    /\ immediates # <<>>
    /\ immediates' = Tail(immediates)
    /\ stack' = IF Head(immediates).t = "real_sendBeacon"
                THEN <<FlushFrame>>
                ELSE <<FireFrame("page_load_beacon", Head(immediates).data)>>
    /\ UNCHANGED <<implVars, confVars, envVars, timers, calls, hfuel, hist>>

\* the callback of setTimeout(.., 1000) in responseEnd runs
RunTimer ==
    /\ Idle
    /\ timers # <<>>
    /\ timers' = Tail(timers)
    /\ stack' = <<ResponseEndFrame(Head(timers).call)>>
    /\ UNCHANGED <<implVars, confVars, envVars, immediates, calls, hfuel, hist>>

\* -------------------------------------------------------- real_sendBeacon
\* From the entry to the call of impl.fireEvent("before_beacon", impl.vars).
FlushStart ==
    /\ Running("real_sendBeacon", "start")
    /\ IF ~beaconQueued
       THEN /\ stack' = Rest
            /\ UNCHANGED <<implVars, hist>>
       ELSE /\ beaconQueued' = FALSE
            /\ hist' = [(IF is_completeThrows THEN Popped(hist, Unwind(Rest)) ELSE hist) EXCEPT
                                    !.requests = 0, !.scheduled = 0,
                                    !.override = Undefined, !.flushOverride = hist.override,
                                    !.passes = @ + 1, !.lastWindow = hist.requests,
                                    !.owed = @ \ {Len(stack) - 1},
                                    !.forced = @ \cup (hist.owed \cap {Len(stack) - 1}),
                                    !.fullPageFlush = @ \/ (~is_completeThrows /\ is_complete /\
                                         window_ok /\
                                         Get(vars, "http.initiator") \in {Undefined, ""}),
                                    !.uncaught = @ \/ (is_completeThrows /\ ~Caught(Rest))]
            /\ IF is_completeThrows
               THEN /\ stack' = Unwind(Rest)
                    /\ errors' = IF Caught(Rest)
                                 THEN addError(errors, "TypeError", CatcherEv(Rest)) ELSE errors
                    /\ UNCHANGED <<beaconsSent, vars>>
               ELSE IF ~is_complete \/ ~window_ok
               THEN /\ stack' = Rest
                    /\ UNCHANGED <<beaconsSent, vars, errors>>
               ELSE /\ beaconsSent' = beaconsSent + 1
                    /\ vars' = LET v1 == addVar(vars, "v", version)
                                   v2 == addVar(v1, "n", ToString(beaconsSent + 1))
                               IN  IF Len(errors) > 0
                                   THEN addVar(v2, "errors", errorsJoin(errors)) ELSE v2
                    /\ errors' = <<>>
                    /\ stack' = Rest \o <<[Top EXCEPT !.pc = "before_beacon",
                                                      !.isPageLoad = isPageLoad(vars)],
                                          FireFrame("before_beacon", <<>>)>>
            /\ UNCHANGED <<hasSentPageLoadBeacon, events, beacon_url, beacon_url_override,
                           storeVars>>
    /\ UNCHANGED <<confVars, envVars, immediates, timers, calls, hfuel>>

\* From the return of the before_beacon event to the call of sendBeaconData.
FlushSnapshot ==
    /\ Running("real_sendBeacon", "before_beacon")
    /\ LET varsSent == vars
           latch == KeepTrack(hasSentPageLoadBeacon, Top.isPageLoad)
       IN  /\ vars' = removeSingleBeaconVars(removeVar(vars, <<"qt", "pgu">>), singleBeaconVars)
           /\ singleBeaconVars' = <<>>
           /\ hasSentPageLoadBeacon' = (hasSentPageLoadBeacon \/ latch)
           /\ immediates' = IF latch
                            THEN Append(immediates, Task("page_load_beacon", varsSent, 0))
                            ELSE immediates
           /\ stack' = IF Throttled THEN Rest
                       ELSE Rest \o <<[Top EXCEPT !.pc = "sent"],
                                      [Frame("sendBeaconData", "start") EXCEPT !.data = varsSent]>>
           /\ hist' = [hist EXCEPT !.handoffs = IF Throttled THEN @ ELSE @ + 1,
                                   !.pageLoads = IF Top.isPageLoad THEN @ + 1 ELSE @,
                                   !.latchedBy = IF latch THEN Get(varsSent, "http.initiator") ELSE @,
                                   !.snapshot = varsSent,
                                   !.changed = { c \in @ : c.flush # Len(stack) },
                                   !.spent = @ \/ \E i \in 1..Len(singleBeaconVars) :
                                                      Has(varsSent, singleBeaconVars[i])]
    /\ UNCHANGED <<beaconQueued, beaconsSent, errors, events, beacon_url, beacon_url_override,
                   varPriority, confVars, envVars, timers, calls, hfuel>>

\* return true
FlushReturn ==
    /\ Running("real_sendBeacon", "sent")
    /\ stack' = Rest
    /\ UNCHANGED <<implVars, confVars, envVars, immediates, timers, calls, hfuel, hist>>

\* --------------------------------------------------------- sendBeaconData
DataLengthIsZero(data) == Has(data, "length") /\ Get(data, "length") = "0"

\* From the entry to the call of impl.fireEvent("beacon", data).
SendDataStart ==
    /\ Running("sendBeaconData", "start")
    /\ LET url == IF Truthy(beacon_url_override) THEN beacon_url_override ELSE beacon_url
       IN  /\ beacon_url' = url
           /\ IF ~Truthy(url) \/ ~beaconUrlAllowed(url) \/ DataLengthIsZero(Top.data)
              THEN stack' = Rest
              ELSE stack' = Rest \o <<[Top EXCEPT !.pc = "beacon"], FireFrame("beacon", Top.data)>>
    /\ UNCHANGED <<beaconQueued, beaconsSent, hasSentPageLoadBeacon, vars, errors, events,
                   beacon_url_override, storeVars, confVars, envVars, immediates, timers, calls,
                   hfuel, hist>>

\* ------------------------------------------------------------- Transport
MAX_GET_LENGTH == 2000
beacon_url_force_https == TRUE

\* encodeURIComponent: letters, digits and - _ . ! ~ * ' ( ) are kept, the other
\* characters the model uses are escaped
Escape(ch) ==
    CASE ch = "%"  -> "%25"
      [] ch = " "  -> "%20"
      [] ch = "\n" -> "%0A"
      [] ch = "["  -> "%5B"
      [] ch = "]"  -> "%5D"
      [] ch = "<"  -> "%3C"
      [] ch = ">"  -> "%3E"
      [] ch = ":"  -> "%3A"
      [] ch = "/"  -> "%2F"
      [] ch = "?"  -> "%3F"
      [] ch = "&"  -> "%26"
      [] ch = "="  -> "%3D"
      [] OTHER     -> ch

\* the escapes of the characters lo..hi of str in order, computed by halves
RECURSIVE EscapeRange(_, _, _)
EscapeRange(str, lo, hi) ==
    IF lo > hi THEN ""
    ELSE IF lo = hi THEN Escape(SubSeq(str, lo, lo))
    ELSE EscapeRange(str, lo, (lo + hi) \div 2) \o EscapeRange(str, (lo + hi) \div 2 + 1, hi)

encodeURIComponent(str) == EscapeRange(str, 1, Len(str))

getUriEncodedVar(name, value) ==
    encodeURIComponent(name) \o "=" \o
    encodeURIComponent(IF value \in {Undefined, Null} THEN "" ELSE value)

\* for (name in o): the names of an object in enumeration order
Names(o) == [i \in 1..Len(o) |-> o[i].k]

\* getVarsOfPriority without the delete
getVarsOfPriorityKeeping(data, pri) ==
    LET iterVars == IF pri # 0 THEN varPriority[pri] ELSE Names(data)
        names == SelectSeq(iterVars, LAMBDA name : Has(data, name))
    IN  [url |-> [i \in 1..Len(names) |-> getUriEncodedVar(names[i], Get(data, names[i]))],
         vars |-> data]

\* getVarsOfPriority(vars, pri): the encoded pairs, and vars after the deletions
getVarsOfPriority(data, pri) ==
    LET iterVars == IF pri # 0 THEN varPriority[pri] ELSE Names(data)
        names == SelectSeq(iterVars, LAMBDA name : Has(data, name))
    IN  [url |-> [i \in 1..Len(names) |-> getUriEncodedVar(names[i], Get(data, names[i]))],
         vars |-> IF pri # 0 THEN removeVar(data, names) ELSE data]

\* The parameter list of data: urlFirst.concat(this.getVarsOfPriority(data, 0),
\* urlLast), as one expression.
Params(data) ==
    LET urlFirst == getVarsOfPriority(data, -1)
        urlLast == getVarsOfPriority(urlFirst.vars, 1)
    IN  urlFirst.url \o getVarsOfPriority(urlLast.vars, 0).url \o urlLast.url

\* params.join(sep)
RECURSIVE join(_, _)
join(params, sep) ==
    IF params = <<>> THEN ""
    ELSE IF Len(params) = 1 THEN params[1]
    ELSE params[1] \o sep \o join(Tail(params), sep)

\* One use of a transport mechanism: where the data went and whether it was taken.
Request(mechanism, url, body, ok) ==
    [mechanism |-> mechanism, url |-> url, body |-> body, ok |-> ok]

\* the XHR branch without the catch block
xhrBeaconNoRetry(tried, dest, paramsJoined) ==
    [requests |-> Append(tried, Request("XMLHttpRequest", dest, paramsJoined,
                                        browser.XMLHttpRequest = "ok")),
     threw |-> browser.XMLHttpRequest # "ok", ret |-> browser.XMLHttpRequest = "ok"]

\* The XHR branch: new XMLHttpRequest() outside the try block, sendXhrPostBeacon
\* inside it, and in the catch block a request object of the boomerang frame.
\* A request whose constructor, open or send throws is recorded with ok FALSE.
xhrBeacon(tried, dest, paramsJoined) ==
    LET xhr == Request("XMLHttpRequest", dest, paramsJoined, browser.XMLHttpRequest = "ok")
        frame == Request("boomerang_frame.XMLHttpRequest", dest, paramsJoined,
                         browser.frame = "ok")
    IN  IF browser.XMLHttpRequest = "new throws"
        THEN [requests |-> Append(tried, xhr), threw |-> TRUE, ret |-> FALSE]
        ELSE IF browser.XMLHttpRequest = "ok"
        THEN [requests |-> Append(tried, xhr), threw |-> FALSE, ret |-> TRUE]
        ELSE [requests |-> tried \o <<xhr, frame>>, threw |-> browser.frame # "ok",
              ret |-> browser.frame = "ok"]

\* useImg with url.length >= MAX_GET_LENGTH as the test of the length
useImgBelowLimit(url) ==
    IF beacon_type = "GET" THEN TRUE
    ELSE ~(beacon_type = "POST" \/ Len(url) >= MAX_GET_LENGTH)

\* useImg after the tests of impl.beacon_type and url.length
useImg(url) ==
    IF beacon_type = "GET" THEN TRUE
    ELSE ~(beacon_type = "POST" \/ Len(url) > MAX_GET_LENGTH)

\* sendBeaconData without the test of impl.beacon_auth_token
MechanismsIgnoringToken(dest, url, paramsJoined) ==
    LET native == /\ browser.sendBeacon # "absent"
                  /\ beacon_type # "GET"
                  /\ TRUE
                  /\ ~beacon_disable_sendbeacon
        tried == IF native
                 THEN <<Request("sendBeacon", dest, paramsJoined \o "&sb=1",
                                browser.sendBeacon = "accepts")>>
                 ELSE <<>>
    IN  IF native /\ browser.sendBeacon = "accepts"
        THEN [requests |-> tried, threw |-> FALSE, ret |-> TRUE]
        ELSE IF useImg(url) \/ browser.XMLHttpRequest = "absent"
        THEN [requests |-> Append(tried, Request("Image", url, "", browser.Image = "ok")),
              threw |-> FALSE, ret |-> browser.Image = "ok"]
        ELSE xhrBeacon(tried, dest, paramsJoined)

\* The mechanisms sendBeaconData tries for the destination dest, the image URL
\* url and the joined parameters: the requests in order, whether an exception
\* leaves sendBeaconData, and the value returned otherwise.  A sendBeacon that
\* is "absent" is missing, not native, or without Blob.  An image whose
\* constructor throws is recorded with ok FALSE, like a request object.
Mechanisms(dest, url, paramsJoined) ==
    LET native == /\ browser.sendBeacon # "absent"
                  /\ beacon_type # "GET"
                  /\ beacon_auth_token = Undefined
                  /\ ~beacon_disable_sendbeacon
        tried == IF native
                 THEN <<Request("sendBeacon", dest, paramsJoined \o "&sb=1",
                                browser.sendBeacon = "accepts")>>
                 ELSE <<>>
    IN  IF native /\ browser.sendBeacon = "accepts"
        THEN [requests |-> tried, threw |-> FALSE, ret |-> TRUE]
        ELSE IF useImg(url) \/ browser.XMLHttpRequest = "absent"
        THEN [requests |-> Append(tried, Request("Image", url, "", browser.Image = "ok")),
              threw |-> FALSE, ret |-> browser.Image = "ok"]
        ELSE xhrBeacon(tried, dest, paramsJoined)

\* From the return of the beacon event to the end: the parameters are put in
\* order and a transport mechanism is used.  The locals urlFirst, urlLast,
\* params, url and paramsJoined are bound to their values one after the other.
SendDataTransport ==
    /\ Running("sendBeaconData", "beacon")
    /\ \E urlFirst \in {getVarsOfPriority(Top.data, -1)} :
       \E urlLast \in {getVarsOfPriority(urlFirst.vars, 1)} :
       \E params \in {urlFirst.url \o getVarsOfPriority(urlLast.vars, 0).url \o urlLast.url} :
       \E query \in {join(params, "&")} :
       \E dest \in {IF beacon_url_force_https /\ StartsWith(beacon_url, "//")
                    THEN "https:" \o beacon_url ELSE beacon_url} :
       \E url \in {dest \o (IF Contains(dest, "?") THEN "&" ELSE "?") \o query} :
       \E paramsJoined \in {IF Contains(query, "http.initiator") THEN query
                            ELSE query \o "&http.initiator=page"} :
       \E m \in {Mechanisms(dest, url, paramsJoined)} :
           /\ beacon_url' = dest
           /\ stack' = IF m.threw THEN Unwind(Rest) ELSE Rest
           /\ errors' = IF m.threw /\ Caught(Rest)
                        THEN addError(errors, "Error", CatcherEv(Rest)) ELSE errors
           /\ hist' = [Popped(hist, IF m.threw THEN Unwind(Rest) ELSE Rest) EXCEPT
                                   !.wirePageLoad = @ \/ (isPageLoad(Top.data) /\
                                        \E i \in 1..Len(m.requests) : m.requests[i].ok),
                                   !.params = params,
                                   !.wire = m.requests,
                                   !.propagated = @ \/ m.threw,
                                   !.uncaught = @ \/ (m.threw /\ ~Caught(Rest))]
    /\ UNCHANGED <<beaconQueued, beaconsSent, hasSentPageLoadBeacon, vars, events,
                   beacon_url_override, storeVars, confVars, envVars, immediates, timers,
                   calls, hfuel>>


\* -------------------------------------------------------- impl.fireEvent
\* fireEvent without the call of BOOMR.real_sendBeacon()
FireStartNoFlush ==
    /\ Running("fireEvent", "start")
    /\ stack' = IF Top.ev \notin DOMAIN events THEN Rest
                ELSE Rest \o <<[Top EXCEPT !.pc = "loop", !.i = 0, !.len = Len(events[Top.ev])]>>
    /\ hist' = [hist EXCEPT !.plbFires = IF Top.ev = "page_load_beacon" THEN @ + 1 ELSE @]
    /\ UNCHANGED <<implVars, confVars, envVars, immediates, timers, calls, hfuel>>

\* From the entry to the call of BOOMR.real_sendBeacon(); before_beacon and
\* beacon go straight to the handlers.
FireStart ==
    /\ Running("fireEvent", "start")
    /\ stack' = IF Top.ev \notin DOMAIN events THEN Rest
                ELSE IF Top.ev # "before_beacon" /\ Top.ev # "beacon"
                THEN Rest \o <<[Top EXCEPT !.pc = "flushed"], FlushFrame>>
                ELSE Rest \o <<[Top EXCEPT !.pc = "loop", !.i = 0, !.len = Len(events[Top.ev])]>>
    /\ hist' = [hist EXCEPT !.plbFires = IF Top.ev = "page_load_beacon" THEN @ + 1 ELSE @,
                            !.owed = IF /\ Top.ev \in DOMAIN events
                                        /\ Top.ev \notin {"before_beacon", "beacon"}
                                        /\ beaconQueued
                                     THEN @ \cup {Len(stack)} ELSE @]
    /\ UNCHANGED <<implVars, confVars, envVars, immediates, timers, calls, hfuel>>

\* handlersLen = handlers.length
FireFlushed ==
    /\ Running("fireEvent", "flushed")
    /\ stack' = Rest \o <<[Top EXCEPT !.pc = "loop", !.i = 0, !.len = Len(events[Top.ev])]>>
    /\ hist' = IF Top.ev # "click" THEN hist
               ELSE [hist EXCEPT !.fires = Append(@, [depth |-> Len(stack),
                                                      before |-> events[Top.ev],
                                                      called |-> <<>>, threw |-> FALSE])]
    /\ UNCHANGED <<implVars, confVars, envVars, immediates, timers, calls, hfuel>>

\* One turn of the loop over the handlers: handler.fn.call(..) inside try.
FireInvoke ==
    /\ Running("fireEvent", "loop")
    /\ Top.i < Top.len
    /\ LET handlers == events[Top.ev]
           next == [Top EXCEPT !.i = @ + 1]
       IN  IF Top.i + 1 > Len(handlers)
           THEN /\ errors' = addError(errors, "TypeError", Top.ev)
                /\ stack' = Rest \o <<next>>
                /\ UNCHANGED hfuel
           ELSE LET fn == handlers[Top.i + 1].fn
                    runs == fn.k \in Unfueled \/ (Script(fn.k) # <<>> /\ hfuel > 0)
                IN  /\ stack' = Rest \o <<next>> \o
                                (IF runs
                                 THEN <<[Frame("handler", "run") EXCEPT !.kind = fn.k, !.call = fn.c]>>
                                 ELSE <<>>)
                    /\ hfuel' = IF runs /\ fn.k \notin Unfueled THEN hfuel - 1 ELSE hfuel
                    /\ UNCHANGED errors
    /\ hist' = IF Top.ev = "click" /\ Top.i + 1 <= Len(events[Top.ev])
               THEN LET handler == events[Top.ev][Top.i + 1]
                    IN  [hist EXCEPT !.invoked = @ + 1,
                                     !.fires[Len(hist.fires)].called = Append(@, handler),
                                     !.shots = IF handler.once THEN Append(@, handler.fn) ELSE @]
               ELSE hist
    /\ UNCHANGED <<beaconQueued, beaconsSent, hasSentPageLoadBeacon, vars, events, beacon_url,
                   beacon_url_override, storeVars, confVars, envVars, immediates, timers, calls>>

\* The loop that removes the 'once' handlers, and the return.
FirePrune ==
    /\ Running("fireEvent", "loop")
    /\ Top.i >= Top.len
    /\ LET r == RemoveOnce(events[Top.ev], 0, Top.len)
       IN  /\ events' = [events EXCEPT ![Top.ev] = r.handlers]
           /\ IF r.ok
              THEN /\ stack' = Rest
                   /\ hist' = Popped(hist, Rest)
                   /\ UNCHANGED errors
              ELSE /\ stack' = Unwind(Rest)
                   /\ errors' = IF Caught(Rest) THEN addError(errors, "TypeError", Top.ev) ELSE errors
                   /\ hist' = [Popped(hist, Unwind(Rest)) EXCEPT !.uncaught = @ \/ ~Caught(Rest)]
    /\ UNCHANGED <<beaconQueued, beaconsSent, hasSentPageLoadBeacon, vars, beacon_url,
                   beacon_url_override, storeVars, confVars, envVars, immediates, timers, calls,
                   hfuel>>

\* ------------------------------------------------------------ subscribers
NextOp == Script(Top.kind)[Top.i + 1]
Calls(op) == Running("handler", "run") /\ Top.i < Len(Script(Top.kind)) /\ NextOp.op = op
Advanced == [Top EXCEPT !.i = @ + 1]

HandlerSendBeacon ==
    /\ Calls("sendBeacon")
    /\ sendBeacon(IF NextOp.e = "" THEN Undefined ELSE NextOp.e)
    /\ stack' = Rest \o <<Advanced>>
    /\ UNCHANGED <<beaconsSent, hasSentPageLoadBeacon, vars, errors, events, beacon_url,
                   storeVars, confVars, envVars, timers, calls, hfuel>>

\* the frame of the fireEvent call that invoked the running subscriber
Firing == stack[Len(stack) - 1]

\* hist after a subscriber wrote value to the variable name
Wrote(name, value) ==
    IF Firing.ev = "before_beacon"
    THEN [hist EXCEPT !.changed = { c \in @ : c.flush # Len(stack) - 2 \/ c.name # name } \cup
                                  { [flush |-> Len(stack) - 2, name |-> name, value |-> value] }]
    ELSE hist

\* function(vars) { vars[name] = value; }: the object is impl.vars for
\* before_beacon and the data of the running sendBeaconData for beacon
HandlerSetArg ==
    /\ Calls("setArg")
    /\ Firing.ev \in {"before_beacon", "beacon"}
    /\ IF Firing.ev = "before_beacon"
       THEN /\ vars' = Put(vars, NextOp.e, Changed)
            /\ stack' = Rest \o <<Advanced>>
       ELSE /\ stack' = [stack EXCEPT ![Len(stack) - 2].data = Put(@, NextOp.e, Changed),
                                      ![Len(stack)] = Advanced]
            /\ UNCHANGED vars
    /\ hist' = Wrote(NextOp.e, Changed)
    /\ UNCHANGED <<beaconQueued, beaconsSent, hasSentPageLoadBeacon, errors, events,
                   beacon_url, beacon_url_override, storeVars, confVars, envVars, immediates,
                   timers, calls, hfuel>>

\* hist after the running subscriber threw
Thrown(h) ==
    IF Firing.ev = "click" THEN [h EXCEPT !.fires[Len(h.fires)].threw = TRUE] ELSE h

\* BOOMR.subscribe(e_name, late) called by a subscriber
HandlerSubscribe ==
    /\ Calls("subscribe")
    /\ events' = subscribe(events, NextOp.e, UserFn("late"), "cb_data", "BOOMR", FALSE)
    /\ stack' = Rest \o <<Advanced>>
    /\ UNCHANGED <<beaconQueued, beaconsSent, hasSentPageLoadBeacon, vars, errors, beacon_url,
                   beacon_url_override, storeVars, confVars, envVars, immediates, timers, calls,
                   hfuel, hist>>

\* throw new Error("boom") and throw {}: the catch block of the fireEvent call
\* that invoked the subscriber gives the value to BOOMR.addError, which records
\* it or throws a TypeError, and that one leaves the fireEvent call.
HandlerThrow ==
    /\ Calls("throw")
    /\ LET below == SubSeq(stack, 1, Len(stack) - 2)
       IN  IF ~addErrorThrows(NextOp.e)
           THEN /\ errors' = addError(errors, NextOp.e, Firing.ev)
                /\ stack' = Rest
                /\ hist' = Thrown(hist)
           ELSE /\ errors' = IF Caught(below)
                             THEN addError(errors, "TypeError", CatcherEv(below)) ELSE errors
                /\ stack' = Unwind(below)
                /\ hist' = [Popped(Thrown(hist), Unwind(below)) EXCEPT
                                !.uncaught = @ \/ ~Caught(below)]
    /\ UNCHANGED <<beaconQueued, beaconsSent, hasSentPageLoadBeacon, vars, events, beacon_url,
                   beacon_url_override, storeVars, confVars, envVars, immediates, timers, calls,
                   hfuel>>

\* function(vars) { for (var k in vars) { delete vars[k]; } } on before_beacon
HandlerClearArg ==
    /\ Calls("clearArg")
    /\ Firing.ev = "before_beacon"
    /\ vars' = <<>>
    /\ stack' = Rest \o <<Advanced>>
    /\ UNCHANGED <<beaconQueued, beaconsSent, hasSentPageLoadBeacon, errors, events,
                   beacon_url, beacon_url_override, storeVars, confVars, envVars, immediates,
                   timers, calls, hfuel, hist>>

\* BOOMR.addVar(name, value) and BOOMR.addVar(name, value, true)
HandlerAddVar ==
    /\ Calls("addVar") \/ Calls("addVarOnce")
    /\ vars' = addVar(vars, NextOp.e, Changed)
    /\ singleBeaconVars' = IF NextOp.op = "addVarOnce" THEN Mark(singleBeaconVars, NextOp.e)
                           ELSE singleBeaconVars
    /\ stack' = Rest \o <<Advanced>>
    /\ hist' = Wrote(NextOp.e, Changed)
    /\ UNCHANGED <<beaconQueued, beaconsSent, hasSentPageLoadBeacon, errors, events,
                   beacon_url, beacon_url_override, varPriority, confVars, envVars, immediates,
                   timers, calls, hfuel>>

\* BOOMR.removeVar(name)
HandlerRemoveVar ==
    /\ Calls("removeVar")
    /\ vars' = removeVar(vars, <<NextOp.e>>)
    /\ stack' = Rest \o <<Advanced>>
    /\ UNCHANGED <<beaconQueued, beaconsSent, hasSentPageLoadBeacon, errors, events,
                   beacon_url, beacon_url_override, storeVars, confVars, envVars, immediates,
                   timers, calls, hfuel, hist>>

HandlerRealSendBeacon ==
    /\ Calls("real_sendBeacon")
    /\ stack' = Rest \o <<Advanced, FlushFrame>>
    /\ UNCHANGED <<implVars, confVars, envVars, immediates, timers, calls, hfuel, hist>>

HandlerFireEvent ==
    /\ Calls("fireEvent")
    /\ stack' = Rest \o <<Advanced, FireFrame(NextOp.e, <<>>)>>
    /\ UNCHANGED <<implVars, confVars, envVars, immediates, timers, calls, hfuel, hist>>

\* function() { BOOMR.responseEnd(name, t_start, data, t_end); }
HandlerResponseEnd ==
    /\ Calls("responseEnd")
    /\ stack' = Rest \o <<Advanced, ResponseEndFrame(Top.call)>>
    /\ UNCHANGED <<implVars, confVars, envVars, immediates, timers, calls, hfuel, hist>>

HandlerReturn ==
    /\ Running("handler", "run")
    /\ Top.i >= Len(Script(Top.kind))
    /\ stack' = Rest
    /\ UNCHANGED <<implVars, confVars, envVars, immediates, timers, calls, hfuel, hist>>

\* ------------------------------------------------------------ responseEnd
\* hist after impl.fireEvent("xhr_load", ..) is called for call c
XhrLoadFired(c) ==
    [hist EXCEPT !.xhrLoads = Append(@, c),
                 !.early = @ \/ (~inArray(calls[c].initiator, BEACON_TYPE_SPAS) /\ ~hist.wirePageLoad)]

\* From the entry to the first call that can run subscriber code.
ResponseEndStart ==
    /\ Running("responseEnd", "start")
    /\ LET c == Top.call
           name == calls[c]
           ready == [hist EXCEPT !.waiting = @ \ {c}]
       IN  IF ~readyToSend
           THEN /\ timers' = Append(timers, Task("responseEnd", <<>>, c))
                /\ stack' = Rest
                /\ hist' = [hist EXCEPT !.waiting = @ \cup {c}]
                /\ UNCHANGED events
           ELSE IF ~hasSentPageLoadBeacon /\ ~inArray(name.initiator, BEACON_TYPE_SPAS)
           THEN /\ events' = subscribe(events, "page_load_beacon", DeferredFn(c), Null, "BOOMR", TRUE)
                /\ stack' = Rest
                /\ hist' = [ready EXCEPT !.deferred = Append(@, c)]
                /\ UNCHANGED timers
           ELSE IF name.type = "object"
           THEN /\ IF ~Truthy(name.url)
                   THEN stack' = Rest /\ hist' = ready
                   ELSE /\ stack' = Rest \o <<[Top EXCEPT !.pc = "fired"], FireFrame("xhr_load", <<>>)>>
                        /\ hist' = [XhrLoadFired(c) EXCEPT !.waiting = @ \ {c}]
                /\ UNCHANGED <<events, timers>>
           ELSE /\ stack' = Rest \o <<[Top EXCEPT !.pc = "flushed"], FlushFrame>>
                /\ hist' = ready
                /\ UNCHANGED <<events, timers>>
    /\ UNCHANGED <<beaconQueued, beaconsSent, hasSentPageLoadBeacon, vars, errors, beacon_url,
                   beacon_url_override, storeVars, confVars, envVars, immediates, calls, hfuel>>

\* BOOMR.addVar("xhr.pg", name) and the xhr_load event of a timer name.
ResponseEndFlushed ==
    /\ Running("responseEnd", "flushed")
    /\ vars' = addVar(vars, "xhr.pg", calls[Top.call].s)
    /\ stack' = Rest \o <<[Top EXCEPT !.pc = "fired"], FireFrame("xhr_load", <<>>)>>
    /\ hist' = XhrLoadFired(Top.call)
    /\ UNCHANGED <<beaconQueued, beaconsSent, hasSentPageLoadBeacon, errors, events, beacon_url,
                   beacon_url_override, storeVars, confVars, envVars, immediates, timers, calls,
                   hfuel>>

ResponseEndReturn ==
    /\ Running("responseEnd", "fired")
    /\ stack' = Rest
    /\ UNCHANGED <<implVars, confVars, envVars, immediates, timers, calls, hfuel, hist>>

\* ------------------------------------------------------------------ Next
\* The steps of the functions of the flush path.
FlushSteps ==
    \/ RunImmediate
    \/ FlushStart
    \/ FlushSnapshot
    \/ FlushReturn
    \/ SendDataStart
    \/ SendDataTransport
    \/ FireStart
    \/ FireFlushed
    \/ FireInvoke
    \/ FirePrune
    \/ HandlerReturn

\* Page-load and SPA beacons: producers set http.initiator and request flushes,
\* subscribers call back into the coordinator.
Next ==
    \/ HostSendBeacon
    \/ HostSubscribe
    \/ HostAddVar
    \/ HostRemoveVar
    \/ CompleteChange
    \/ WindowGone
    \/ HandlerSendBeacon
    \/ HandlerRealSendBeacon
    \/ HandlerFireEvent
    \/ FlushSteps

Spec == Init /\ [][Next]_vars_all

\* Dynamic requests: responseEnd calls, their timers and deferred closures.
NextDynamic ==
    \/ HostPageLoad
    \/ HostResponseEnd
    \/ ReadyChange
    \/ RunTimer
    \/ HandlerResponseEnd
    \/ ResponseEndStart
    \/ ResponseEndFlushed
    \/ ResponseEndReturn
    \/ FlushSteps

SpecDynamic == Init /\ [][NextDynamic]_vars_all

\* The steps the JavaScript engine takes by itself in a dynamic request: a task
\* that has started runs to its end, and a task that is queued is started.
StepsDynamic ==
    \/ HandlerResponseEnd
    \/ ResponseEndStart
    \/ ResponseEndFlushed
    \/ ResponseEndReturn
    \/ FlushSteps

\* Polling: requests around the one page-load beacon of a configured page,
\* with timers that fire and tasks that run.
NextPolling ==
    \/ HostPageLoadFirst
    \/ HostPoll
    \/ ReadyChange
    \/ RunTimer
    \/ StepsDynamic

\* A page with a beacon URL, no allow-list and no rate limit.
InitPolling == Init /\ beacon_url = GoodUrl /\ beacon_urls_allowed = <<>> /\ ~rate_limited

SpecPolling ==
    /\ InitPolling
    /\ [][NextPolling]_vars_all
    /\ WF_vars_all(RunTimer)
    /\ WF_vars_all(StepsDynamic)

\* Subscriptions: the host subscribes callbacks to "click" and fires it.
NextSubscribe ==
    \/ HostSubscribeClick
    \/ HostFireClick
    \/ FireStart
    \/ FlushStart
    \/ FireFlushed
    \/ FireInvoke
    \/ FirePrune

SpecSubscribe == Init /\ [][NextSubscribe]_vars_all

\* The transport: flushes to the configured URL or an override, in every browser.
NextTransport ==
    \/ HostSendBeaconTo
    \/ HostSubscribeRedirect
    \/ HandlerSendBeacon
    \/ HandlerFireEvent
    \/ FlushSteps

SpecTransport == InitTransport /\ [][NextTransport]_vars_all

\* The parameter list: beacons of a store and priority buckets the host filled,
\* with no subscribers.
NextParams ==
    \/ HostSendBeacon
    \/ RunImmediate
    \/ FlushStart
    \/ FlushSnapshot
    \/ FlushReturn
    \/ SendDataStart
    \/ SendDataTransport
    \/ FireStart
    \/ FireFlushed
    \/ FirePrune

SpecParams == InitParams /\ [][NextParams]_vars_all

\* The variable store: subscribers of before_beacon and beacon write to it and
\* to the object they receive; the host adds a single-use variable.
NextStore ==
    \/ HostAddOnce
    \/ HostSubscribeStore
    \/ HostSendBeacon
    \/ CompleteChange
    \/ HandlerSetArg
    \/ HandlerAddVar
    \/ HandlerRemoveVar
    \/ HandlerSendBeacon
    \/ HandlerRealSendBeacon
    \/ FlushSteps

SpecStore == InitStore /\ [][NextStore]_vars_all

\* Aborted hand-offs: flushes of a page whose beacon_url may be empty or not
\* allowed, with a before_beacon subscriber that empties the object it is given.
NextAbort ==
    \/ HostSendBeacon
    \/ HostAddVar
    \/ HostSubscribeClear
    \/ HandlerClearArg
    \/ FlushSteps

SpecAbort == Init /\ [][NextAbort]_vars_all

\* Rate limiting: beacons of a page whose session a producer limits, with a
\* single-use variable and a before_beacon subscriber that throws.
NextLimited ==
    \/ HostSendBeacon
    \/ HostAddVar
    \/ HostAddOnce
    \/ HostSubscribeThrower
    \/ RateLimitChange
    \/ HandlerThrow
    \/ RunImmediate
    \/ FlushStart
    \/ FlushSnapshot
    \/ FlushReturn
    \/ SendDataStart
    \/ SendDataTransport
    \/ FireStart
    \/ FireFlushed
    \/ FireInvoke
    \/ FirePrune

\* A page with a beacon URL and no allow-list, rate limited or not.
InitLimited == Init /\ beacon_url = GoodUrl /\ beacon_urls_allowed = <<>>

SpecLimited == InitLimited /\ [][NextLimited]_vars_all

\* The event bus: subscribers of "click" that return, throw, fire the event
\* again or subscribe another function, registered with or without 'once'.
NextBus ==
    \/ HostSubscribeBus
    \/ HostFire
    \/ HandlerThrow
    \/ HandlerFireEvent
    \/ HandlerSubscribe
    \/ HandlerReturn
    \/ FireStart
    \/ FlushStart
    \/ FireFlushed
    \/ FireInvoke
    \/ FirePrune

SpecBus == InitPolling /\ [][NextBus]_vars_all

\* Page teardown: subscribers of page_unload and before_unload, and the native
\* events of a page that is left.
NextTeardown ==
    \/ HostSubscribeUnload
    \/ HostTeardown
    \/ DispatchNext
    \/ DispatchReturn
    \/ UnloadHandlerStart
    \/ UnloadHandlerCalled
    \/ UnloadHandlerReturn
    \/ HandlerSendBeacon
    \/ HandlerReturn
    \/ RunImmediate
    \/ FlushStart
    \/ FlushSnapshot
    \/ FlushReturn
    \/ SendDataStart
    \/ SendDataTransport
    \/ FireStart
    \/ FireFlushed
    \/ FirePrune

SpecTeardown == InitPolling /\ [][NextTeardown]_vars_all

\* Long beacons: every browser and beacon_type, with URLs of up to, exactly
\* and more than MAX_GET_LENGTH characters; no subscribers.
NextLength ==
    \/ HostAddPad
    \/ NextParams

InitLength == InitTransport /\ beacon_url = GoodUrl /\ beacon_urls_allowed = <<>>

SpecLength == InitLength /\ [][NextLength]_vars_all

\* Error summaries: the host reports errors between beacons; no subscribers.
NextErrors ==
    \/ HostAddError
    \/ CompleteChange
    \/ NextParams

SpecErrors == InitPolling /\ [][NextErrors]_vars_all

\* Priorities: the host gives priorities to variables, adds and removes
\* variables, and sends beacons.
NextPriority ==
    \/ HostSetVarPriority
    \/ HostAddVar
    \/ HostRemoveVar
    \/ NextParams

SpecPriority == InitPolling /\ [][NextPriority]_vars_all

\* A protocol-relative beacon URL with an allow-list, in every browser.
InitRelative ==
    /\ beaconQueued = FALSE
    /\ beaconsSent = 0
    /\ hasSentPageLoadBeacon = FALSE
    /\ vars = <<>>
    /\ errors = <<>>
    /\ events = [e \in EventNames |-> <<>>]
    /\ singleBeaconVars = <<>>
    /\ varPriority = [pri \in {-1, 1} |-> <<>>]
    /\ beacon_url = RelativeUrl
    /\ beacon_url_override = Undefined
    /\ beacon_urls_allowed \in RelativeInputs
    /\ rate_limited = FALSE
    /\ \E cfg \in TransportInputs :
          /\ beacon_type = cfg.type
          /\ beacon_auth_token = cfg.token
          /\ beacon_disable_sendbeacon = cfg.disable
    /\ browser \in BrowserInputs
    /\ plugin_complete = TRUE
    /\ plugin_ready = TRUE
    /\ plugin = Plugin
    /\ window_ok = TRUE
    /\ listeners = <<>>
    /\ stack = <<>>
    /\ immediates = <<>>
    /\ timers = <<>>
    /\ calls = <<>>
    /\ hfuel = MaxReentry
    /\ hist = [HistInit EXCEPT !.configured = beacon_url]

SpecRelative == InitRelative /\ [][NextParams]_vars_all

\* Plugins of every shape: page-load beacons and dynamic requests.
InitPlugins ==
    /\ beaconQueued = FALSE
    /\ beaconsSent = 0
    /\ hasSentPageLoadBeacon = FALSE
    /\ vars = <<>>
    /\ errors = <<>>
    /\ events = [e \in EventNames |-> <<>>]
    /\ singleBeaconVars = <<>>
    /\ varPriority = [pri \in {-1, 1} |-> <<>>]
    /\ beacon_url = GoodUrl
    /\ beacon_url_override = Undefined
    /\ beacon_urls_allowed = <<>>
    /\ rate_limited = FALSE
    /\ beacon_type = "AUTO"
    /\ beacon_auth_token = Undefined
    /\ beacon_disable_sendbeacon = FALSE
    /\ browser = Browser
    /\ plugin_complete \in BOOLEAN
    /\ plugin_ready \in BOOLEAN
    /\ plugin \in PluginInputs
    /\ window_ok = TRUE
    /\ listeners = <<>>
    /\ stack = <<>>
    /\ immediates = <<>>
    /\ timers = <<>>
    /\ calls = <<>>
    /\ hfuel = MaxReentry
    /\ hist = [HistInit EXCEPT !.configured = beacon_url]

NextPlugins ==
    \/ HostPageLoad
    \/ HostPoll
    \/ RunTimer
    \/ StepsDynamic

SpecPlugins == InitPlugins /\ [][NextPlugins]_vars_all

\* Queued flushes: the host and a 'before_beacon' subscriber ask for beacons;
\* scheduled callbacks run, and a function that has started runs to its end.
HostSubscribeResend == HostSubscribeTo({<<"before_beacon", "resend">>})

StepsQueued ==
    \/ HandlerSendBeacon
    \/ HandlerRealSendBeacon
    \/ FlushSteps

NextQueued ==
    \/ HostSendBeacon
    \/ HostSubscribeResend
    \/ CompleteChange
    \/ StepsQueued

SpecQueued ==
    /\ InitPolling
    /\ [][NextQueued]_vars_all
    /\ WF_vars_all(StepsQueued)

\* ================================================================ claims
\* C1: sendBeacon calls made before any real_sendBeacon execution are coalesced:
\* while requests are pending exactly one callback has been scheduled for them
\* and the flag is set; exactly one execution passes the guard for them; and a
\* real_sendBeacon call that finds the flag clear returns without any effect.
C1_Window ==
    /\ hist.requests >= 1 => (hist.scheduled = 1 /\ beaconQueued /\ hist.passes = 0)
    /\ hist.requests = 0 => /\ hist.scheduled = 0
                            /\ ~beaconQueued
                            /\ hist.passes = IF hist.lastWindow = 0 THEN 0 ELSE 1
C1_NoEffect ==
    (Running("real_sendBeacon", "start") /\ ~beaconQueued)
        => (stack' = Rest /\ UNCHANGED <<implVars, confVars, immediates, timers>>)
C1_Coalescing == []C1_Window /\ [][C1_NoEffect]_vars_all

\* Several requests were served by one flush, and the next real_sendBeacon call
\* is at the guard with the flag clear.
C1_Witness ==
    /\ Running("real_sendBeacon", "start")
    /\ ~beaconQueued
    /\ hist.lastWindow >= 2
    /\ hist.passes = 1

\* C2: at most one real_sendBeacon execution is between its guard and its
\* return at any time.
C2_OneFlushInFlight ==
    Cardinality({j \in 1..Len(stack) :
                    stack[j].fn = "real_sendBeacon" /\ stack[j].pc # "start"}) <= 1

\* C3: whenever no task is running, beaconsSent equals the number of flushes
\* that called sendBeaconData.
C3_CounterCountsHandoffs == Idle => beaconsSent = hist.handoffs

\* C4: whenever no task is running, hasSentPageLoadBeacon is true exactly if a
\* flush whose http.initiator was absent or empty has passed the plugin and
\* environment checks.
C4_LatchedByFullPageFlush == Idle => (hasSentPageLoadBeacon <=> hist.fullPageFlush)

\* C5: the flush that sets the latch (and schedules page_load_beacon) never has
\* an http.initiator of a SPA kind.
C5_SpaNeverLatches == ~inArray(hist.latchedBy, BEACON_TYPE_SPAS)

\* C6: responseEnd fires no xhr_load event for a non-SPA transaction before a
\* page-load-classified snapshot has reached a transport mechanism.
C6_NoEarlyXhrLoad == ~hist.early

\* C7: a responseEnd call for a non-SPA transaction made while plugins are ready
\* and the latch is false returns at once; it appends one 'once' subscriber of
\* page_load_beacon that re-invokes the same call, and changes nothing else: no
\* xhr_load, no xhr.pg variable, no flush, no hand-off, nothing scheduled.
C7_DeferralCase ==
    /\ Running("responseEnd", "start")
    /\ readyToSend
    /\ ~hasSentPageLoadBeacon
    /\ ~inArray(calls[Top.call].initiator, BEACON_TYPE_SPAS)
C7_OnlyRegisters ==
    /\ stack' = Rest
    /\ events' = [events EXCEPT !["page_load_beacon"] =
                     Append(@, [fn |-> DeferredFn(Top.call), cb_data |-> "{}",
                                scope |-> "BOOMR", once |-> TRUE])]
    /\ Script(DeferredFn(Top.call).k) = <<[op |-> "responseEnd", e |-> ""]>>
    /\ UNCHANGED <<beaconQueued, beaconsSent, hasSentPageLoadBeacon, vars, errors,
                   beacon_url, beacon_url_override, confVars, immediates, timers>>
    /\ hist'.xhrLoads = hist.xhrLoads
    /\ hist'.handoffs = hist.handoffs
C7_Deferral == [][C7_DeferralCase => C7_OnlyRegisters]_vars_all

\* Two calls have been deferred and nothing else has happened.
C7_Witness ==
    /\ Idle
    /\ Len(hist.deferred) = 2
    /\ Len(events["page_load_beacon"]) = 2
    /\ ~hasSentPageLoadBeacon
    /\ hist.xhrLoads = <<>>
    /\ vars = <<>>

\* C8: the deferred calls fire their xhr_load events in the order in which they
\* were originally called.
C8_OriginalCallOrder ==
    \A i, j \in 1..Len(hist.xhrLoads) :
        (/\ i < j
         /\ \E d \in 1..Len(hist.deferred) : hist.deferred[d] = hist.xhrLoads[i]
         /\ \E d \in 1..Len(hist.deferred) : hist.deferred[d] = hist.xhrLoads[j])
            => hist.xhrLoads[i] < hist.xhrLoads[j]

\* C9: page_load_beacon is fired at most once, whatever the number of page-load
\* flushes: it is scheduled once, when the latch is set (fired, or still to be
\* fired, once in all), and it runs as a task of its own, so no real_sendBeacon
\* execution is below it on the stack.
C9_PendingEvents ==
    Cardinality({j \in 1..Len(immediates) : immediates[j].t = "page_load_beacon"}) +
    Cardinality({j \in 1..Len(stack) : /\ stack[j].fn = "fireEvent"
                                       /\ stack[j].ev = "page_load_beacon"
                                       /\ stack[j].pc = "start"})
C9_FiredOnceAfterFlush ==
    /\ hist.plbFires + C9_PendingEvents = IF hasSentPageLoadBeacon THEN 1 ELSE 0
    /\ \A j \in 1..Len(stack) :
          (stack[j].fn = "fireEvent" /\ stack[j].ev = "page_load_beacon") => j = 1

\* Two page-load flushes have run and the event has been fired once.
C9_Witness ==
    /\ Idle
    /\ immediates = <<>>
    /\ hist.pageLoads >= 2
    /\ hist.plbFires = 1

\* C10: the event has one subscriber record per distinct argument list of the
\* subscribe calls made, and a fire invokes that many callbacks.
C10_IdempotentSubscribe ==
    /\ Len(events["click"]) = Cardinality(hist.subscribed)
    /\ (Running("fireEvent", "loop") /\ Top.ev = "click" /\ Top.i >= Top.len)
          => hist.invoked = Cardinality(hist.subscribed)

\* C19: a real_sendBeacon execution that finds the enabled plugin not complete
\* returns without calling anything: no event is fired and nothing is handed to
\* sendBeaconData; the variable store, the single-use markers, beaconsSent, the
\* error accumulator, the latch, the subscribers and the destination are
\* unchanged, the flag is clear afterwards and no callback or timer is
\* scheduled.  An execution passes the guard only after a sendBeacon call made
\* since the last one that passed it.
C19_Dropped ==
    (Running("real_sendBeacon", "start") /\ ~plugin_complete) =>
        /\ stack' = Rest
        /\ beaconQueued' = FALSE
        /\ UNCHANGED <<beaconsSent, hasSentPageLoadBeacon, vars, errors, events, beacon_url,
                       beacon_url_override, storeVars, immediates, timers>>
        /\ hist'.handoffs = hist.handoffs

C19_OnlyAfterRequest ==
    (Running("real_sendBeacon", "start") /\ stack' # Rest) => hist.requests > 0

C19_NotReadyDropped == [][C19_Dropped /\ C19_OnlyAfterRequest]_vars_all

\* a requested flush was dropped at the completeness check and nothing followed
C19_Witness ==
    /\ Idle
    /\ window_ok
    /\ ~plugin_complete
    /\ hist.passes = 1
    /\ beaconsSent = 0
    /\ ~beaconQueued
    /\ immediates = <<>>

\* C15: with a non-empty beacon_urls_allowed, every request sendBeaconData makes
\* to a transport mechanism goes to a URL that matches an allowed pattern.
C15_AllowListEnforced ==
    beacon_urls_allowed # <<>> =>
        \A i \in 1..Len(hist.wire) : beaconUrlAllowed(hist.wire[i].url)

\* the requests of the last sendBeaconData made through mechanism
C16_Attempts(mechanism) == SelectSeq(hist.wire, LAMBDA r : r.mechanism = mechanism)

\* C16: sendBeaconData uses the window's request object at most once and the
\* boomerang frame's at most once; it uses the frame's exactly when open or send
\* on the window's threw, and then once; when the window's request did not
\* throw there is no second request.
C16_SingleFallback ==
    LET primary == C16_Attempts("XMLHttpRequest")
        secondary == C16_Attempts("boomerang_frame.XMLHttpRequest")
    IN  /\ Len(primary) <= 1
        /\ Len(secondary) <= 1
        /\ Len(secondary) = 1 <=>
               (Len(primary) = 1 /\ browser.XMLHttpRequest = "throws")
        /\ (Len(primary) = 1 /\ primary[1].ok) => Len(secondary) = 0

\* open or send threw on the window's request and the frame's was used
C16_Witness ==
    /\ browser.XMLHttpRequest = "throws"
    /\ Len(C16_Attempts("XMLHttpRequest")) = 1
    /\ Len(C16_Attempts("boomerang_frame.XMLHttpRequest")) = 1

\* C17: no exception leaves sendBeaconData, whatever the transport mechanisms do.
C17_NeverThrows == ~hist.propagated

\* the destination of the flush that is running: the override its requests
\* gave, or else the configured beacon_url
C18_Destination ==
    IF Truthy(hist.flushOverride) THEN hist.flushOverride ELSE hist.configured

\* C18: sendBeaconData takes as destination the override given by the requests of
\* its own flush, and the configured beacon_url when they gave none.
C18_OverrideScope ==
    [][Running("sendBeaconData", "start") => beacon_url' = C18_Destination]_vars_all

\* the names of a bucket that the snapshot holds, without those in taken
C14_Group(data, bucket, taken) ==
    SelectSeq(bucket, LAMBDA name : Has(data, name) /\ name \notin taken)

C14_Set(names) == { names[i] : i \in 1..Len(names) }

\* the order of the names: first bucket, the rest in store order, last bucket
C14_Order(data) ==
    LET first == C14_Group(data, varPriority[-1], {})
        last == C14_Group(data, varPriority[1], C14_Set(first))
        rest == C14_Group(data, Names(data), C14_Set(first) \cup C14_Set(last))
    IN  first \o rest \o last

\* C14: the parameter list sendBeaconData builds from a snapshot is the encoded
\* pairs of the names of the first bucket that the snapshot holds, in bucket
\* order, then of the remaining names in store order, then of the names of the
\* last bucket that the snapshot holds (a name of both buckets counts for the
\* first); every variable of the snapshot is in the list exactly once.
C14_Ordered ==
    Running("sendBeaconData", "beacon") =>
        LET data == Top.data
            order == C14_Order(data)
        IN  /\ hist'.params = [i \in 1..Len(order) |->
                                 getUriEncodedVar(order[i], Get(data, order[i]))]
            /\ \A j \in 1..Len(data) :
                   Cardinality({ i \in 1..Len(hist'.params) :
                       StartsWith(hist'.params[i], encodeURIComponent(data[j].k) \o "=") }) = 1
            /\ Len(hist'.params) = Len(data)

C14_ParameterOrder == [][C14_Ordered]_vars_all

\* a list with a name moved to the front, one moved to the end and others between
C14_Witness ==
    /\ Len(hist.params) >= 4
    /\ hist.params[1] = "z=4"
    /\ hist.params[Len(hist.params)] = "a=1"
    /\ \E i \in 1..Len(hist.params) : hist.params[i] = "m=2%203"

\* C11: the parameter list sendBeaconData builds after the beacon event is the
\* list of the snapshot the flush cloned: nothing a beacon subscriber does,
\* through addVar or removeVar or on the object it receives, changes it.
C11_SnapshotTransmitted ==
    [][Running("sendBeaconData", "beacon") => hist'.params = Params(hist.snapshot)]_vars_all

\* C12: every variable a before_beacon subscriber wrote, on the object it
\* received or with addVar, is in the snapshot of the flush that fired the
\* event, with the value written.
C12_SameFlushSnapshot ==
    [][Running("real_sendBeacon", "before_beacon") =>
          \A c \in hist.changed :
              c.flush = Len(stack) => Get(hist'.snapshot, c.name) = c.value]_vars_all

\* the single-use variable is in the store exactly while its marker is set
C13_Pending ==
    Has(vars, "once") <=> \E i \in 1..Len(singleBeaconVars) : singleBeaconVars[i] = "once"

\* the flush that clones the store takes the marked variables into its snapshot,
\* removes them from the store and leaves no marker
C13_Consumed ==
    Running("real_sendBeacon", "before_beacon") =>
        /\ \A i \in 1..Len(singleBeaconVars) :
               /\ Get(hist'.snapshot, singleBeaconVars[i]) = Get(vars, singleBeaconVars[i])
               /\ ~Has(vars', singleBeaconVars[i])
        /\ singleBeaconVars' = <<>>

C20_Retries(c) == { i \in 1..Len(timers) : timers[i].call = c }

\* a call that failed the readiness check has one retry pending, or the retry
\* is the task that has just started; no call has two
C20_OneRetry ==
    \A c \in 1..Len(calls) :
        /\ Cardinality(C20_Retries(c)) <= 1
        /\ c \in hist.waiting =>
               \/ Cardinality(C20_Retries(c)) = 1
               \/ stack = <<ResponseEndFrame(c)>>

\* a responseEnd call made while the plugins are not ready schedules its retry
\* and returns: no xhr_load event, and no subscription whatever the latch is
C20_NotReady ==
    (Running("responseEnd", "start") /\ ~plugin_ready) =>
        /\ timers' = Append(timers, Task("responseEnd", <<>>, Top.call))
        /\ stack' = Rest
        /\ hist'.xhrLoads = hist.xhrLoads
        /\ UNCHANGED <<implVars, immediates>>

\* if the plugins are ready from some time on, every call that failed the
\* readiness check passes it later
C20_Passes ==
    <>[]plugin_ready =>
        \A c \in 1..MaxCalls : (c \in hist.waiting) ~> (c \notin hist.waiting)

\* C20: while readyToSend() is false a responseEnd call fires no xhr_load event
\* and has exactly one retry pending; the readiness check comes before the check
\* of the latch; and if readyToSend() stays true from some time on, the call
\* passes the readiness check, after however many retries.
C20_Polling == []C20_OneRetry /\ [][C20_NotReady]_vars_all /\ C20_Passes

\* a non-SPA call made before the page-load beacon waits for the plugins with
\* one retry pending
C20_Witness ==
    /\ Idle
    /\ ~plugin_ready
    /\ ~hasSentPageLoadBeacon
    /\ \E c \in hist.waiting :
          /\ Cardinality(C20_Retries(c)) = 1
          /\ ~inArray(calls[c].initiator, BEACON_TYPE_SPAS)

\* the requests of the running sendBeaconData that used one of mechanisms
C30_Used(wire, mechanisms) == SelectSeq(wire, LAMBDA r : r.mechanism \in mechanisms)

\* the native primitive is available and no setting excludes it
C30_Eligible ==
    /\ browser.sendBeacon # "absent"
    /\ beacon_type # "GET"
    /\ beacon_auth_token = Undefined
    /\ ~beacon_disable_sendbeacon

C30_Selection ==
    Running("sendBeaconData", "beacon") =>
        LET wire == hist'.wire
            native == C30_Used(wire, {"sendBeacon"})
            image == C30_Used(wire, {"Image"})
            xhr == C30_Used(wire, {"XMLHttpRequest", "boomerang_frame.XMLHttpRequest"})
        IN  /\ Len(native) = (IF C30_Eligible THEN 1 ELSE 0)
            /\ native # <<>> => wire[1].mechanism = "sendBeacon"
            /\ (native # <<>> /\ native[1].ok) => Len(wire) = 1
            /\ (native # <<>> /\ ~native[1].ok) =>
                   /\ Len(wire) > 1
                   /\ (image # <<>>) # (xhr # <<>>)
                   /\ Len(image) <= 1

\* C30: sendBeaconData attempts navigator.sendBeacon if and only if it is
\* available, beacon_type is not GET, no auth token is configured and
\* beacon_disable_sendbeacon is not set, and attempts it first; when it accepts
\* the data no other mechanism is used; when it refuses, exactly one of the
\* image and the request-object mechanisms is used after it.
C30_NativeSelection == [][C30_Selection]_vars_all

\* navigator.sendBeacon refused the data and another mechanism took it
C30_Witness ==
    /\ Len(hist.wire) = 2
    /\ hist.wire[1].mechanism = "sendBeacon"
    /\ ~hist.wire[1].ok
    /\ hist.wire[2].ok

\* sendBeaconData returns at once: no 'beacon' event and no transport mechanism
C29_Aborts ==
    /\ stack' = Rest
    /\ hist'.wire = hist.wire
    /\ hist'.params = hist.params

\* C29: sendBeaconData fires no 'beacon' event and uses no transport mechanism,
\* and returns, when the destination URL is empty and when the snapshot it is
\* given holds no variable.
C29_ConfigErrorAbort ==
    [][(/\ Running("sendBeaconData", "start")
        /\ \/ ~Truthy(IF Truthy(beacon_url_override) THEN beacon_url_override ELSE beacon_url)
           \/ Top.data = <<>>)
       => C29_Aborts]_vars_all

\* the part of C29 about the empty destination URL
C29_EmptyUrlAbort ==
    [][(/\ Running("sendBeaconData", "start")
        /\ ~Truthy(IF Truthy(beacon_url_override) THEN beacon_url_override ELSE beacon_url))
       => C29_Aborts]_vars_all

\* sendBeaconData was given an empty snapshot and went on to the beacon event
C29_EmptySnapshotSent ==
    /\ Running("fireEvent", "start")
    /\ Top.ev = "beacon"
    /\ Top.data = <<>>

\* the running function is fireEvent, at its entry, for a registered event
\* other than before_beacon and beacon
C21_Fires ==
    /\ Running("fireEvent", "start")
    /\ Top.ev \in DOMAIN events
    /\ Top.ev \notin {"before_beacon", "beacon"}

\* fireEvent calls real_sendBeacon before it looks at its subscribers
C21_FlushCalled ==
    C21_Fires => stack' = Rest \o <<[Top EXCEPT !.pc = "flushed"], FlushFrame>>

\* the real_sendBeacon call of a fireEvent made while a beacon was queued passes
\* the guard and clears the flag
C21_FlushRuns ==
    (Running("real_sendBeacon", "start") /\ Len(stack) - 1 \in hist.owed) =>
        /\ beaconQueued /\ ~beaconQueued'
        /\ hist'.passes = hist.passes + 1

\* a subscriber of the event is invoked by the fireEvent call itself, when the
\* flush it called has left the stack, and not while that flush is still owed
C21_NotifiedAfter ==
    (/\ Running("fireEvent", "loop")
     /\ Top.ev \notin {"before_beacon", "beacon"}
     /\ Top.i < Top.len) => Len(stack) \notin hist.owed

\* firing before_beacon or beacon calls no flush
C21_LifecycleEvents ==
    (Running("fireEvent", "start") /\ Top.ev \in {"before_beacon", "beacon"}) =>
        /\ Len(stack') = Len(stack)
        /\ beaconQueued' = beaconQueued
        /\ hist'.passes = hist.passes

\* C21: fireEvent for a registered event other than before_beacon and beacon,
\* called while a beacon is queued, runs the queued flush synchronously and to
\* its end before it invokes any subscriber of the event; firing before_beacon
\* or beacon triggers no flush.
C21_FlushBeforeNotify ==
    [][C21_FlushCalled /\ C21_FlushRuns /\ C21_NotifiedAfter /\ C21_LifecycleEvents]_vars_all

\* a subscriber of xhr_load is about to be invoked, after the flush that was
\* queued when the event was fired
C21_Witness ==
    /\ Running("fireEvent", "loop")
    /\ Top.ev = "xhr_load"
    /\ Top.i < Top.len
    /\ Len(stack) \in hist.forced

\* the number a variable n holds; real_sendBeacon writes ++this.beaconsSent
C26_Number(n) == CHOOSE k \in 0..beaconsSent : ToString(k) = n

\* the snapshot real_sendBeacon is about to hand to sendBeaconData carries an n
\* of at least 1 that is greater than the n of the snapshot handed over before
C26_Increasing ==
    (Running("real_sendBeacon", "before_beacon") /\ ~rate_limited) =>
        /\ Has(vars, "n")
        /\ C26_Number(Get(vars, "n")) >= 1
        /\ hist.handoffs > 0 =>
               C26_Number(Get(vars, "n")) > C26_Number(Get(hist.snapshot, "n"))

\* C26: the n values of the snapshots handed to sendBeaconData are at least 1
\* and strictly increasing in hand-off order, also when a before_beacon
\* subscriber triggers a flush re-entrantly.
C26_SequenceNumbers == [][C26_Increasing]_vars_all

\* a flush that passes its checks empties the error accumulator and fires
\* before_beacon, rate limited or not
C28_BeforeBeacon ==
    (/\ Running("real_sendBeacon", "start")
     /\ beaconQueued /\ is_complete /\ window_ok
     /\ rate_limited) =>
        /\ errors' = <<>>
        /\ stack' = Rest \o <<[Top EXCEPT !.pc = "before_beacon", !.isPageLoad = isPageLoad(vars)],
                              FireFrame("before_beacon", <<>>)>>

\* after before_beacon a rate-limited flush removes the single-use variables
\* and their markers, sets the latch if it is a page-load flush, and returns
\* without calling sendBeaconData
C28_Bookkeeping ==
    (Running("real_sendBeacon", "before_beacon") /\ rate_limited) =>
        /\ singleBeaconVars' = <<>>
        /\ \A i \in 1..Len(singleBeaconVars) : ~Has(vars', singleBeaconVars[i])
        /\ Top.isPageLoad => hasSentPageLoadBeacon'
        /\ stack' = Rest
        /\ hist'.handoffs = hist.handoffs

\* no 'beacon' event and no transport mechanism while the session is limited
C28_NoTransmission ==
    rate_limited =>
        /\ \A j \in 1..Len(stack) :
              /\ stack[j].fn # "sendBeaconData"
              /\ ~(stack[j].fn = "fireEvent" /\ stack[j].ev = "beacon")
        /\ hist'.wire = hist.wire

BusEnded == { k \in 1..Len(hist.fires) : hist.fires[k].depth > Len(stack') }

\* the exception of a subscriber ends that subscriber alone, and the tally
\* gets an entry with count 1 for its message or the count of the entry grows
C22_Recorded ==
    Calls("throw") =>
        LET key == <<Firing.ev, NextOp.e>>
        IN  /\ stack' = Rest
            /\ Has(errors', key)
            /\ Get(errors', key) = (IF Has(errors, key) THEN Get(errors, key) + 1 ELSE 1)
            /\ Len(errors') = (IF Has(errors, key) THEN Len(errors) ELSE Len(errors) + 1)

\* a fire in which a subscriber threw has invoked every subscriber registered
\* before it once, in registration order
C22_AllInvoked ==
    \A k \in BusEnded :
        hist.fires[k].threw => hist.fires[k].called = hist.fires[k].before

\* C22: when a subscriber throws during fireEvent, every other subscriber
\* registered for the event before the fire is still invoked exactly once, in
\* registration order, and the error is recorded in the error tally, a repeated
\* message incrementing its count.
C22_ExceptionIsolation == [][C22_Recorded /\ C22_AllInvoked]_vars_all

\* the part of C22 that holds: a subscriber that throws an Error is recorded
\* and the loop goes on with the next subscriber
C22_ErrorIsolated ==
    [][(Calls("throw") /\ ~addErrorThrows(NextOp.e)) => C22_Recorded]_vars_all

\* no 'once' subscriber was invoked twice since it subscribed
C23_AtMostOneFire ==
    \A i, j \in 1..Len(hist.shots) : i # j => hist.shots[i] # hist.shots[j]

\* a fire that returns leaves none of the 'once' subscribers it invoked in the list
C23_RemovedAfter ==
    (Running("fireEvent", "loop") /\ Top.ev = "click" /\ Top.i >= Top.len /\ stack' = Rest) =>
        LET called == hist.fires[Len(hist.fires)].called
        IN  \A i \in 1..Len(called) :
                called[i].once => \A j \in 1..Len(events'["click"]) : events'["click"][j] # called[i]

\* no step removes a subscriber registered without 'once'
C23_OthersKept ==
    \A e \in DOMAIN events : \A i \in 1..Len(events[e]) :
        ~events[e][i].once => \E j \in 1..Len(events'[e]) : events'[e][j] = events[e][i]

\* C23: a subscriber registered with once=true is invoked during at most one
\* fire of its event, also when a subscriber fires the event again during that
\* fire, and is not in the list when that fire has returned; a subscriber
\* registered without once is never removed by firing.
C23_OneShot == []C23_AtMostOneFire /\ [][C23_RemovedAfter /\ C23_OthersKept]_vars_all

\* the parts of C23 about the list of subscribers, which hold
C23_ListKept == [][C23_RemovedAfter /\ C23_OthersKept]_vars_all

\* C27: the subscribers a fire invokes are exactly those registered before it
\* began, once each and in order: a subscriber registered by a handler during
\* the fire is not invoked by that fire, and is invoked by the next one.
C27_RegisteredBefore ==
    [][\A k \in BusEnded : hist.fires[k].called = hist.fires[k].before]_vars_all

\* the same for the fires in which no subscriber fires the event again and none
\* throws an object that addError cannot describe
C27_PlainFires ==
    [][\A k \in BusEnded :
          (\A i \in 1..Len(hist.fires[k].before) :
               hist.fires[k].before[i].fn.k \notin {"refirer", "breaker"})
          => hist.fires[k].called = hist.fires[k].before]_vars_all

\* C24: the callback of a page_unload or before_unload subscription is invoked
\* at most once across the native teardown events: after the first of
\* beforeunload and pagehide (or unload) invoked it, a later one does not.
C24_TeardownLatch ==
    \A i, j \in 1..Len(hist.unloads) : i # j => hist.unloads[i] # hist.unloads[j]

\* C25: a queued flush runs.  Whenever the queued flag is set, a real_sendBeacon
\* execution eventually passes the guard and clears it, given that scheduled
\* callbacks run; and the flag is cleared by nothing but the step of
\* real_sendBeacon that tests it.
C25_Cleared == beaconQueued /\ ~beaconQueued'
C25_ByGuard ==
    C25_Cleared => /\ Running("real_sendBeacon", "start")
                   /\ hist'.passes = hist.passes + 1
C25_QueuedFlushRuns == (beaconQueued ~> ~beaconQueued) /\ [][C25_ByGuard]_vars_all

\* a flag set by a subscriber during a flush has been cleared by a later flush
C25_Witness ==
    /\ Idle
    /\ ~beaconQueued
    /\ immediates = <<>>
    /\ hist.passes = 1
    /\ beaconsSent = MaxBeacons
    /\ hfuel < MaxReentry

\* C31: image or request object.  Where sendBeaconData uses a mechanism other
\* than the native primitive, it is the image when no request object is
\* available or beacon_type is GET, whatever the length of the URL; the request
\* object when beacon_type is POST or the full URL is longer than
\* MAX_GET_LENGTH characters; and the image otherwise.
C31_Others == SelectSeq(hist.wire, LAMBDA r : r.mechanism # "sendBeacon")
C31_FullLength(r) ==
    IF r.mechanism = "Image" THEN Len(r.url)
    ELSE Len(r.url) + 1 + Len(join(hist.params, "&"))
C31_Expected(r) ==
    IF browser.XMLHttpRequest = "absent" \/ beacon_type = "GET" THEN "Image"
    ELSE IF beacon_type = "POST" \/ C31_FullLength(r) > MAX_GET_LENGTH THEN "XMLHttpRequest"
    ELSE "Image"
C31_AtLimit ==
    /\ beacon_type = "AUTO"
    /\ \E i \in 1..Len(hist.wire) :
          hist.wire[i].mechanism = "Image" /\ Len(hist.wire[i].url) = MAX_GET_LENGTH

\* C32: the error summary of a cycle.  A flush that passes its checks writes
\* the errors recorded since the previous such flush to the errors field that
\* its snapshot clones, and empties the accumulator; when none were recorded
\* the snapshot has no errors field.
C32_Flushes == Running("real_sendBeacon", "start") /\ beaconsSent' = beaconsSent + 1
C32_Summary ==
    C32_Flushes => /\ errors' = <<>>
                   /\ IF errors = <<>> THEN ~Has(vars', "errors")
                      ELSE Get(vars', "errors") = errorsJoin(errors)
C32_ErrorSummary == [][C32_Summary]_vars_all

\* the part of it about the errors that were recorded: they are reported by the
\* next flush that passes its checks and the accumulator is empty afterwards
C32_Recorded ==
    C32_Flushes => /\ errors' = <<>>
                   /\ errors # <<>> => Get(vars', "errors") = errorsJoin(errors)
C32_RecordedReported == [][C32_Recorded]_vars_all

\* C33: plugins without a completion check are always ready.  With a plugin
\* that is disabled or has no readyToSend method, readyToSend() returns true;
\* with a plugin that is disabled or has no is_complete method, a
\* real_sendBeacon execution that passes the guard in an available window goes
\* on to number the beacon, as it does for a complete plugin.
C33_Ready == (plugin.disabled \/ plugin.readyToSend # "function") => readyToSend
C33_Unchecked == plugin.disabled \/ plugin.is_complete # "function"
C33_Proceeds ==
    (Running("real_sendBeacon", "start") /\ beaconQueued /\ window_ok /\ C33_Unchecked)
        => (beaconsSent' = beaconsSent + 1 /\ Len(stack') > Len(stack))
C33_AlwaysReady == []C33_Ready /\ [][C33_Proceeds]_vars_all

\* the parts of it about readyToSend() and about disabled plugins
C33_Disabled ==
    (Running("real_sendBeacon", "start") /\ beaconQueued /\ window_ok /\ plugin.disabled)
        => (beaconsSent' = beaconsSent + 1 /\ Len(stack') > Len(stack))
C33_ReadyAndDisabled == []C33_Ready /\ [][C33_Disabled]_vars_all

\* C34: the priority buckets.  After any setVarPriority, addVar and removeVar
\* calls no name is in both the bucket -1 and the bucket 1, and a
\* setVarPriority call with another priority leaves both buckets as they are.
C34_Bucket(pri) == { varPriority[pri][i] : i \in 1..Len(varPriority[pri]) }
C34_Disjoint == C34_Bucket(-1) \cap C34_Bucket(1) = {}
C34_OthersIgnored ==
    \A name \in PriorityNames, pri \in PriorityInputs \ {-1, 1} :
        setVarPriority(varPriority, name, pri) = varPriority
C34_PriorityBuckets == C34_Disjoint /\ C34_OthersIgnored

\* C35: at most one pending scheduled flush.  At every moment at most one
\* real_sendBeacon callback given to BOOMR.setImmediate has not run yet.
C35_Pending == { i \in 1..Len(immediates) : immediates[i].t = "real_sendBeacon" }
C35_OnePending == Cardinality(C35_Pending) <= 1

\* C36: the final flush at teardown.  When the window has called every
\* listener of a native teardown event and page_unload has subscribers, an
\* unload handler of that event has called real_sendBeacon right after the
\* callback of the last-registered page_unload subscriber returned; and that
\* call has consumed the request of a beacon that was queued.
C36_Ended == Running("dispatchEvent", "loop") /\ Top.i >= Top.len
C36_Last == events["page_unload"][Len(events["page_unload"])].fn
C36_Flushed ==
    (C36_Ended /\ events["page_unload"] # <<>>)
        => \E k \in 1..Len(hist.finals) :
              /\ hist.finals[k].type = Top.ev
              /\ hist.finals[k].after = C36_Last
C36_Consumed == Running("unload_handler", "flushed") => ~beaconQueued
C36_FinalFlush == C36_Flushed /\ C36_Consumed

\* beforeunload found a beacon queued and two page_unload subscribers next to a
\* before_unload subscriber: the flush ran after the second one and sent it
C36_Witness ==
    /\ C36_Ended
    /\ Top.ev = "beforeunload"
    /\ Len(events["page_unload"]) = 2
    /\ Len(events["before_unload"]) >= 1
    /\ \E k \in 1..Len(hist.finals) : hist.finals[k].queued
    /\ beaconsSent >= 1

\* C37: fireEvent never propagates an exception to its caller.  A fireEvent
\* call ends only by its own return: no step removes its frame from the call
\* stack together with frames below it or as an exception that leaves the task.
C37_Returns(j) ==
    /\ j = Len(stack)
    /\ Len(stack') = j - 1
    /\ hist'.uncaught = hist.uncaught
C37_NoEscape ==
    \A j \in 1..Len(stack) :
        (stack[j].fn = "fireEvent" /\ Len(stack') < j) => C37_Returns(j)
C37_NeverPropagates == [][C37_NoEscape]_vars_all

\* C38: the payload does not depend on the mechanism.  The mechanisms that one
\* sendBeaconData call uses for a snapshot deliver the same set of name=value
\* parameters - in the query string of the image URL, in the body of the
\* request object, in the body given to navigator.sendBeacon - apart from
\* sb=1 on the native path.
C38_Cuts(str) == {0, Len(str) + 1} \cup { i \in 1..Len(str) : SubSeq(str, i, i) = "&" }
C38_Split(str) ==
    { SubSeq(str, a + 1, b - 1) : <<a, b>> \in
        { c \in C38_Cuts(str) \X C38_Cuts(str) :
            c[1] < c[2] /\ \A m \in C38_Cuts(str) : ~(c[1] < m /\ m < c[2]) } }
C38_Query(url) ==
    LET q == CHOOSE i \in 1..Len(url) :
                 SubSeq(url, i, i) = "?" /\ \A l \in 1..(i - 1) : SubSeq(url, l, l) # "?"
    IN  SubSeq(url, q + 1, Len(url))
C38_Delivered(r) ==
    IF r.mechanism = "Image" THEN C38_Split(C38_Query(r.url))
    ELSE IF r.mechanism = "sendBeacon" THEN C38_Split(r.body) \ {"sb=1"}
    ELSE C38_Split(r.body)
C38_SamePayload ==
    \A i, j \in 1..Len(hist.wire) :
        C38_Delivered(hist.wire[i]) = C38_Delivered(hist.wire[j])

\* C39: no silent loss of single-use data.  A flush removes a single-use
\* variable from the live store, or its marker, only when it hands its snapshot
\* to a transport mechanism: the session is not rate limited and the beacon URL
\* is set and allowed.
C39_Removes ==
    \/ \E i \in 1..Len(singleBeaconVars) :
          Has(vars, singleBeaconVars[i]) /\ ~Has(vars', singleBeaconVars[i])
    \/ (singleBeaconVars # <<>> /\ singleBeaconVars' = <<>>)
C39_Destination == IF Truthy(beacon_url_override) THEN beacon_url_override ELSE beacon_url
C39_Transmits ==
    /\ ~rate_limited
    /\ Truthy(C39_Destination)
    /\ beaconUrlAllowed(C39_Destination)
C39_Kept == (Running("real_sendBeacon", "before_beacon") /\ C39_Removes) => C39_Transmits
C39_NoSilentLoss == [][C39_Kept]_vars_all

\* C40: the allow-list covers the URL that is used.  With a non-empty
\* beacon_urls_allowed, the URL of every request to a transport mechanism, which
\* is the beacon URL after a protocol-relative one was made https, matches an
\* allowed pattern.
C40_UsedUrlAllowed ==
    \A i \in 1..Len(hist.wire) :
        beacon_urls_allowed # <<>> =>
            \E k \in 1..Len(beacon_urls_allowed) :
                RegExpExec(beacon_urls_allowed[k], hist.wire[i].url)

====
